---- MODULE Spec2Model ----
(***************************************************************************)
(* Model of the headermapper package: the fluent Builder, the HeaderMapper *)
(* engine (MetadataAnnotator, ResponseModifier, HeaderMatcher, GetStats)   *)
(* and the transformation functions.                                       *)
(*                                                                         *)
(* Strings are sequences of one-character strings, so that case folding,   *)
(* header canonicalisation and prefix removal are computed character by    *)
(* character.  http.Header and metadata.MD are functions from their        *)
(* (canonicalised, resp. lower-cased) keys to sequences of values.         *)
(***************************************************************************)
EXTENDS Integers, Sequences, FiniteSets, TLC

VARIABLES
    config,     \* the *Config shared by the Builder and the HeaderMapper built from it
    built,      \* TRUE once Build() has returned a HeaderMapper
    skipPaths,  \* HeaderMapper.skipPaths, the set copied from config.SkipPaths by NewHeaderMapper
    logger,     \* HeaderMapper.logger: "NoOp" (NoOpLogger) or "test" (a recording Logger)
    warns,      \* number of Warn calls the recording logger has stored
    call,       \* the most recent engine invocation: its inputs and what it returned
    threads     \* the invocations in progress on concurrent goroutines, one record each

vars == <<config, built, skipPaths, logger, warns, call, threads>>

(***************************************************************************)
(* Characters and strings                                                  *)
(***************************************************************************)
Lowers == <<"a","b","c","d","e","f","g","h","i","j","k","l","m",
            "n","o","p","q","r","s","t","u","v","w","x","y","z">>
Uppers == <<"A","B","C","D","E","F","G","H","I","J","K","L","M",
            "N","O","P","Q","R","S","T","U","V","W","X","Y","Z">>
Digits == {"0","1","2","3","4","5","6","7","8","9"}

LowerSet == {Lowers[i] : i \in DOMAIN Lowers}
UpperSet == {Uppers[i] : i \in DOMAIN Uppers}
ToLowerMap == [c \in UpperSet |-> Lowers[CHOOSE i \in DOMAIN Uppers : Uppers[i] = c]]
ToUpperMap == [c \in LowerSet |-> Uppers[CHOOSE i \in DOMAIN Lowers : Lowers[i] = c]]
IsLower(c) == c \in LowerSet
IsUpper(c) == c \in UpperSet
LowerChar(c) == IF c \in UpperSet THEN ToLowerMap[c] ELSE c
UpperChar(c) == IF c \in LowerSet THEN ToUpperMap[c] ELSE c

\* strings.ToLower / strings.ToUpper on ASCII text
StrToLower(s) == [i \in DOMAIN s |-> LowerChar(s[i])]
StrToUpper(s) == [i \in DOMAIN s |-> UpperChar(s[i])]

HasPrefix(s, p) == Len(s) >= Len(p) /\ SubSeq(s, 1, Len(p)) = p
\* strings.TrimPrefix
TrimPrefix(s, p) == IF HasPrefix(s, p) THEN SubSeq(s, Len(p) + 1, Len(s)) ELSE s

IsSpace(c) == c \in {" ", "\t", "\n", "\r"}
RECURSIVE TrimLeft(_)
TrimLeft(s) == IF s # <<>> /\ IsSpace(Head(s)) THEN TrimLeft(Tail(s)) ELSE s
RECURSIVE TrimRight(_)
TrimRight(s) ==
    IF s # <<>> /\ IsSpace(s[Len(s)]) THEN TrimRight(SubSeq(s, 1, Len(s) - 1)) ELSE s
\* strings.TrimSpace
StrTrimSpace(s) == TrimRight(TrimLeft(s))

\* strings.ReplaceAll(s, "_", "-")
ReplaceUnderscore(s) == [i \in DOMAIN s |-> IF s[i] = "_" THEN "-" ELSE s[i]]

\* net/textproto: the bytes allowed in a header field name (the backquote, also
\* allowed, cannot be written as a string here and occurs in no name below)
TokenPunct == {"!", "#", "$", "%", "&", "'", "*", "+", "-", ".", "^", "_", "|", "~"}
IsTokenChar(c) == IsLower(c) \/ IsUpper(c) \/ c \in Digits \/ c \in TokenPunct

\* net/textproto.CanonicalMIMEHeaderKey: the first letter and every letter after
\* a hyphen in upper case, the others in lower case; a name holding a byte that
\* is no token character is returned unchanged.
CanonicalMIMEHeaderKey(s) ==
    IF \E i \in DOMAIN s : ~IsTokenChar(s[i])
    THEN s
    ELSE [i \in DOMAIN s |->
            IF i = 1 \/ s[i - 1] = "-" THEN UpperChar(s[i]) ELSE LowerChar(s[i])]

(***************************************************************************)
(* String literals used by the code and by the scenarios explored          *)
(***************************************************************************)
Str_XUserID_decl == <<"X","-","U","s","e","r","-","I","D">>
Str_xuserid == <<"x","-","u","s","e","r","-","i","d">>
Str_XUserId == <<"X","-","U","s","e","r","-","I","d">>
Str_XTraceID == <<"X","-","T","r","a","c","e","-","I","D">>
Str_userid == <<"u","s","e","r","-","i","d">>
Str_traceid == <<"t","r","a","c","e","-","i","d">>
Str_health == <<"/","h","e","a","l","t","h">>
Str_api == <<"/","a","p","i","/","t","e","s","t">>
Str_GrpcMetadataDash == <<"g","r","p","c","-","m","e","t","a","d","a","t","a","-">>
Str_MetadataPrefix == <<"g","r","p","c","g","a","t","e","w","a","y","-">>
Str_MetadataHeaderPrefix == <<"G","r","p","c","-","M","e","t","a","d","a","t","a","-">>
\* grpc-gateway runtime: the permanent HTTP headers DefaultHeaderMatcher forwards
PermanentHTTPHeaders == {
    <<"A","c","c","e","p","t">>,
    <<"A","c","c","e","p","t","-","C","h","a","r","s","e","t">>,
    <<"A","c","c","e","p","t","-","L","a","n","g","u","a","g","e">>,
    <<"A","c","c","e","p","t","-","R","a","n","g","e","s">>,
    <<"A","u","t","h","o","r","i","z","a","t","i","o","n">>,
    <<"C","a","c","h","e","-","C","o","n","t","r","o","l">>,
    <<"C","o","n","t","e","n","t","-","T","y","p","e">>,
    <<"C","o","o","k","i","e">>,
    <<"D","a","t","e">>,
    <<"E","x","p","e","c","t">>,
    <<"F","r","o","m">>,
    <<"H","o","s","t">>,
    <<"I","f","-","M","a","t","c","h">>,
    <<"I","f","-","M","o","d","i","f","i","e","d","-","S","i","n","c","e">>,
    <<"I","f","-","N","o","n","e","-","M","a","t","c","h">>,
    <<"I","f","-","S","c","h","e","d","u","l","e","-","T","a","g","-","M","a","t","c","h">>,
    <<"I","f","-","U","n","m","o","d","i","f","i","e","d","-","S","i","n","c","e">>,
    <<"M","a","x","-","F","o","r","w","a","r","d","s">>,
    <<"O","r","i","g","i","n">>,
    <<"P","r","a","g","m","a">>,
    <<"R","e","f","e","r","e","r">>,
    <<"U","s","e","r","-","A","g","e","n","t">>,
    <<"V","i","a">>,
    <<"W","a","r","n","i","n","g">>
}

(***************************************************************************)
(* Maps: http.Header and metadata.MD                                       *)
(***************************************************************************)
EmptyMap == [k \in {} |-> <<>>]
MapPut(m, k, v) == [x \in (DOMAIN m) \cup {k} |-> IF x = k THEN v ELSE m[x]]

\* http.Header.Get: the first value under the canonicalised key, "" when none
HeaderGet(h, key) ==
    LET k == CanonicalMIMEHeaderKey(key)
    IN IF k \in DOMAIN h /\ Len(h[k]) > 0 THEN h[k][1] ELSE <<>>
\* http.Header.Set: replaces the values under the canonicalised key by one value
HeaderSet(h, key, value) == MapPut(h, CanonicalMIMEHeaderKey(key), <<value>>)

\* metadata.MD.Get: the values under the lower-cased key
MDGet(md, key) ==
    LET k == StrToLower(key) IN IF k \in DOMAIN md THEN md[k] ELSE <<>>
\* metadata.MD.Set: replaces the values under the lower-cased key; no values, no change
MDSet(md, key, vals) == IF Len(vals) = 0 THEN md ELSE MapPut(md, StrToLower(key), vals)

(***************************************************************************)
(* Types of the package                                                    *)
(***************************************************************************)
\* MappingDirection (iota)
Incoming == 0
Outgoing == 1
Bidirectional == 2

\* A TransformFunc value: the function it names and what its closure captured.
\* NilTransform is the nil func.
TransformValue(op, arg, fs) == [op |-> op, arg |-> arg, fs |-> fs]
NilTransform == TransformValue("nil", <<>>, <<>>)

\* HeaderMapping
HeaderMapping(httpHeader, grpcMetadata, direction) ==
    [HTTPHeader |-> httpHeader, GRPCMetadata |-> grpcMetadata, Direction |-> direction,
     Transform |-> NilTransform, Required |-> FALSE, DefaultValue |-> <<>>]

\* Config
EmptyConfig ==
    [Mappings |-> <<>>, SkipPaths |-> <<>>, CaseSensitive |-> FALSE,
     OverwriteExisting |-> FALSE, Debug |-> FALSE]

(***************************************************************************)
(* Transformation functions                                                *)
(***************************************************************************)
ToLower(value) == StrToLower(value)
ToUpper(value) == StrToUpper(value)
TrimSpace(value) == StrTrimSpace(value)
\* AddPrefix / RemovePrefix return closures over prefix
AddPrefix(prefix) == TransformValue("AddPrefix", prefix, <<>>)
RemovePrefix(prefix) == TransformValue("RemovePrefix", prefix, <<>>)
\* ChainTransforms returns a closure over the slice of transforms
ChainTransforms(transforms) == TransformValue("ChainTransforms", <<>>, transforms)
FnToLower == TransformValue("ToLower", <<>>, <<>>)
FnToUpper == TransformValue("ToUpper", <<>>, <<>>)
FnTrimSpace == TransformValue("TrimSpace", <<>>, <<>>)

\* Calling a TransformFunc value on a string.  The body of the ChainTransforms
\* closure runs the transforms left to right and skips the nil ones.
\* strings.Repeat
RECURSIVE Repeat(_, _)
Repeat(s, count) == IF count <= 0 THEN <<>> ELSE s \o Repeat(s, count - 1)
Str_Star == <<"*">>

\* Variant of the MaskSensitive closure that masks only values longer than
\* twice showChars
MaskSensitiveFunc_Strict(showChars, value) ==
    IF Len(value) < showChars * 2
    THEN Repeat(Str_Star, Len(value))
    ELSE SubSeq(value, 1, showChars)
         \o Repeat(Str_Star, Len(value) - showChars * 2)
         \o SubSeq(value, Len(value) - showChars + 1, Len(value))

\* A slice expression value[lo:hi] whose bounds are out of range panics; Panic
\* stands for the call that does not return.
Panic == <<"panic: runtime error: slice bounds out of range">>
GoSlice(value, lo, hi) ==
    IF 0 <= lo /\ lo <= hi /\ hi <= Len(value) THEN SubSeq(value, lo + 1, hi) ELSE Panic
\* a + b + c, evaluated left to right
Concat3(a, b, c) == IF a = Panic \/ b = Panic \/ c = Panic THEN Panic ELSE a \o b \o c

\* MaskSensitive returns a closure over showChars; this is the closure.  len
\* and the slices count bytes: a value is the sequence of its bytes.
MaskSensitiveFunc(showChars, value) ==
    IF Len(value) <= showChars * 2
    THEN Repeat(Str_Star, Len(value))
    ELSE Concat3(GoSlice(value, 0, showChars),
                 Repeat(Str_Star, Len(value) - showChars * 2),
                 GoSlice(value, Len(value) - showChars, Len(value)))

\* Truncate returns a closure over maxLength; this is the closure
TruncateFunc(maxLength, value) ==
    IF Len(value) <= maxLength THEN value ELSE GoSlice(value, 0, maxLength)
Truncate(maxLength) == TransformValue("Truncate", maxLength, <<>>)
MaskSensitive(showChars) == TransformValue("MaskSensitive", showChars, <<>>)

RECURSIVE CallTransform(_, _)
\* Variant of the ChainTransforms closure that runs the transforms right to left
RECURSIVE ChainFrom_RightToLeft(_, _, _)
ChainFrom_RightToLeft(transforms, i, result) ==
    IF i > Len(transforms) THEN result
    ELSE LET rest == ChainFrom_RightToLeft(transforms, i + 1, result)
         IN IF transforms[i] # NilTransform
            THEN CallTransform(transforms[i], rest) ELSE rest
RECURSIVE ChainFrom(_, _, _)
ChainFrom(transforms, i, result) ==
    IF i > Len(transforms) THEN result
    ELSE ChainFrom(transforms, i + 1,
                   IF transforms[i] # NilTransform
                   THEN CallTransform(transforms[i], result) ELSE result)
CallTransform(t, value) ==
    CASE t.op = "ToLower" -> ToLower(value)
      [] t.op = "ToUpper" -> ToUpper(value)
      [] t.op = "TrimSpace" -> TrimSpace(value)
      [] t.op = "AddPrefix" -> t.arg \o value
      [] t.op = "RemovePrefix" -> TrimPrefix(value, t.arg)
      [] t.op = "ChainTransforms" -> ChainFrom(t.fs, 1, value)
      [] t.op = "MaskSensitive" -> MaskSensitiveFunc(t.arg, value)
      [] t.op = "Truncate" -> TruncateFunc(t.arg, value)
(***************************************************************************)
(* HeaderMapper: the operations on one request or response                 *)
(*                                                                         *)
(* hm is [config, skipPaths].  A pass over the mappings threads st =        *)
(* [out, warns, debugs]: the collection being written (the metadata of the *)
(* request, or the header of the response writer), the Warn calls made on  *)
(* hm.logger (the name each one reports) and the number of Debug calls.    *)
(***************************************************************************)
HM == [config |-> config, skipPaths |-> skipPaths]

\* NewHeaderMapper: the skip set is copied out of config.SkipPaths
NewSkipPaths(cfg) == {cfg.SkipPaths[i] : i \in DOMAIN cfg.SkipPaths}

\* Variants of mapIncomingHeader with one step changed (used to probe the properties)
mapIncomingHeader_NoTransform(hm, req, st, mapping) ==
    LET got == HeaderGet(req.Header, mapping.HTTPHeader)
        headerValue == IF got = <<>> /\ mapping.DefaultValue # <<>>
                       THEN mapping.DefaultValue ELSE got
    IN IF headerValue = <<>> /\ mapping.Required
       THEN [st EXCEPT !.warns = Append(@, mapping.HTTPHeader)]
       ELSE IF headerValue = <<>>
       THEN st
       ELSE IF ~hm.config.OverwriteExisting
               /\ Len(MDGet(st.out, mapping.GRPCMetadata)) > 0
            THEN st
            ELSE [st EXCEPT !.out = MDSet(@, mapping.GRPCMetadata, <<headerValue>>)]
mapIncomingHeader_AlwaysOverwrite(hm, req, st, mapping) ==
    LET got == HeaderGet(req.Header, mapping.HTTPHeader)
        headerValue == IF got = <<>> /\ mapping.DefaultValue # <<>>
                       THEN mapping.DefaultValue ELSE got
    IN IF headerValue = <<>> /\ mapping.Required
       THEN [st EXCEPT !.warns = Append(@, mapping.HTTPHeader)]
       ELSE IF headerValue = <<>>
       THEN st
       ELSE LET transformed == IF mapping.Transform # NilTransform
                               THEN CallTransform(mapping.Transform, headerValue)
                               ELSE headerValue
            IN [st EXCEPT !.out = MDSet(@, mapping.GRPCMetadata, <<transformed>>)]
mapIncomingHeader_DefaultOnlyIfOptional(hm, req, st, mapping) ==
    LET got == HeaderGet(req.Header, mapping.HTTPHeader)
        headerValue == IF got = <<>> /\ mapping.DefaultValue # <<>> /\ ~mapping.Required
                       THEN mapping.DefaultValue ELSE got
    IN IF headerValue = <<>> /\ mapping.Required
       THEN [st EXCEPT !.warns = Append(@, mapping.HTTPHeader)]
       ELSE IF headerValue = <<>>
       THEN st
       ELSE LET transformed == IF mapping.Transform # NilTransform
                               THEN CallTransform(mapping.Transform, headerValue)
                               ELSE headerValue
            IN IF ~hm.config.OverwriteExisting
                  /\ Len(MDGet(st.out, mapping.GRPCMetadata)) > 0
               THEN st
               ELSE [st EXCEPT !.out = MDSet(@, mapping.GRPCMetadata, <<transformed>>)]
mapIncomingHeader_MissingWritesEmpty(hm, req, st, mapping) ==
    LET got == HeaderGet(req.Header, mapping.HTTPHeader)
        headerValue == IF got = <<>> /\ mapping.DefaultValue # <<>>
                       THEN mapping.DefaultValue ELSE got
    IN IF headerValue = <<>> /\ ~mapping.Required
       THEN st
       ELSE LET transformed == IF mapping.Transform # NilTransform
                               THEN CallTransform(mapping.Transform, headerValue)
                               ELSE headerValue
                warned == IF headerValue = <<>>
                          THEN [st EXCEPT !.warns = Append(@, mapping.HTTPHeader)] ELSE st
            IN IF ~hm.config.OverwriteExisting
                  /\ Len(MDGet(st.out, mapping.GRPCMetadata)) > 0
               THEN warned
               ELSE [warned EXCEPT !.out = MDSet(@, mapping.GRPCMetadata, <<transformed>>)]

mapIncomingHeader_EmptyIsPresent(hm, req, st, mapping) ==
    LET got == HeaderGet(req.Header, mapping.HTTPHeader)
        present == CanonicalMIMEHeaderKey(mapping.HTTPHeader) \in DOMAIN req.Header
        headerValue == IF ~present /\ mapping.DefaultValue # <<>>
                       THEN mapping.DefaultValue ELSE got
    IN IF ~present /\ headerValue = <<>> /\ mapping.Required
       THEN [st EXCEPT !.warns = Append(@, mapping.HTTPHeader)]
       ELSE IF ~present /\ headerValue = <<>>
       THEN st
       ELSE LET transformed == IF mapping.Transform # NilTransform
                               THEN CallTransform(mapping.Transform, headerValue)
                               ELSE headerValue
            IN IF ~hm.config.OverwriteExisting
                  /\ Len(MDGet(st.out, mapping.GRPCMetadata)) > 0
               THEN st
               ELSE [st EXCEPT !.out = MDSet(@, mapping.GRPCMetadata, <<transformed>>)]
mapIncomingHeader_RawDefault(hm, req, st, mapping) ==
    LET got == HeaderGet(req.Header, mapping.HTTPHeader)
    IN IF got = <<>> /\ mapping.DefaultValue = <<>>
       THEN IF mapping.Required
            THEN [st EXCEPT !.warns = Append(@, mapping.HTTPHeader)] ELSE st
       ELSE LET transformed == IF got = <<>> THEN mapping.DefaultValue
                               ELSE IF mapping.Transform # NilTransform
                               THEN CallTransform(mapping.Transform, got)
                               ELSE got
            IN IF ~hm.config.OverwriteExisting
                  /\ Len(MDGet(st.out, mapping.GRPCMetadata)) > 0
               THEN st
               ELSE [st EXCEPT !.out = MDSet(@, mapping.GRPCMetadata, <<transformed>>)]

\* mapIncomingHeader
mapIncomingHeader(hm, req, st, mapping) ==
    LET got == HeaderGet(req.Header, mapping.HTTPHeader)
        headerValue == IF got = <<>> /\ mapping.DefaultValue # <<>>
                       THEN mapping.DefaultValue ELSE got
    IN IF headerValue = <<>> /\ mapping.Required
       THEN [st EXCEPT !.warns = Append(@, mapping.HTTPHeader)]
       ELSE IF headerValue = <<>>
       THEN st
       ELSE LET transformed == IF mapping.Transform # NilTransform
                               THEN CallTransform(mapping.Transform, headerValue)
                               ELSE headerValue
            IN IF ~hm.config.OverwriteExisting
                  /\ Len(MDGet(st.out, mapping.GRPCMetadata)) > 0
               THEN st
               ELSE [st EXCEPT !.out = MDSet(@, mapping.GRPCMetadata, <<transformed>>)]

\* Variant of mapOutgoingHeader that takes the last returned value
mapOutgoingHeader_LastValue(hm, md, st, mapping) ==
    LET got == MDGet(md, mapping.GRPCMetadata) IN
    IF Len(got) = 0 /\ mapping.DefaultValue = <<>>
    THEN IF mapping.Required
         THEN [st EXCEPT !.warns = Append(@, mapping.GRPCMetadata)]
         ELSE st
    ELSE LET values == IF Len(got) = 0 THEN <<mapping.DefaultValue>> ELSE got
             last == values[Len(values)]
             headerValue == IF mapping.Transform # NilTransform
                            THEN CallTransform(mapping.Transform, last)
                            ELSE last
         IN IF ~hm.config.OverwriteExisting
               /\ HeaderGet(st.out, mapping.HTTPHeader) # <<>>
            THEN st
            ELSE [st EXCEPT !.out = HeaderSet(@, mapping.HTTPHeader, headerValue)]

\* mapOutgoingHeader
mapOutgoingHeader(hm, md, st, mapping) ==
    LET got == MDGet(md, mapping.GRPCMetadata) IN
    IF Len(got) = 0 /\ mapping.DefaultValue = <<>>
    THEN IF mapping.Required
         THEN [st EXCEPT !.warns = Append(@, mapping.GRPCMetadata)]
         ELSE st
    ELSE LET values == IF Len(got) = 0 THEN <<mapping.DefaultValue>> ELSE got
             first == values[1]
             headerValue == IF mapping.Transform # NilTransform
                            THEN CallTransform(mapping.Transform, first)
                            ELSE first
         IN IF ~hm.config.OverwriteExisting
               /\ HeaderGet(st.out, mapping.HTTPHeader) # <<>>
            THEN st
            ELSE [st EXCEPT !.out = HeaderSet(@, mapping.HTTPHeader, headerValue)]

\* the loop of MetadataAnnotator over hm.config.Mappings, from index i on
RECURSIVE IncomingFrom(_, _, _, _)
IncomingFrom(hm, req, st, i) ==
    IF i > Len(hm.config.Mappings) THEN st
    ELSE LET mapping == hm.config.Mappings[i]
         IN IncomingFrom(hm, req,
                IF mapping.Direction = Outgoing THEN st
                ELSE mapIncomingHeader(hm, req, st, mapping),
                i + 1)

\* Variant of the ResponseModifier loop that passes over Bidirectional rules too
RECURSIVE OutgoingFrom_OnlyOutgoing(_, _, _, _)
OutgoingFrom_OnlyOutgoing(hm, md, st, i) ==
    IF i > Len(hm.config.Mappings) THEN st
    ELSE LET mapping == hm.config.Mappings[i]
         IN OutgoingFrom_OnlyOutgoing(hm, md,
                IF mapping.Direction # Outgoing THEN st
                ELSE mapOutgoingHeader(hm, md, st, mapping),
                i + 1)

\* the loop of ResponseModifier over hm.config.Mappings, from index i on
RECURSIVE OutgoingFrom(_, _, _, _)
OutgoingFrom(hm, md, st, i) ==
    IF i > Len(hm.config.Mappings) THEN st
    ELSE LET mapping == hm.config.Mappings[i]
         IN OutgoingFrom(hm, md,
                IF mapping.Direction = Incoming THEN st
                ELSE mapOutgoingHeader(hm, md, st, mapping),
                i + 1)

NewPass(out) == [out |-> out, warns |-> <<>>, debugs |-> 0]
LogDebug(hm, st) == IF hm.config.Debug THEN [st EXCEPT !.debugs = @ + 1] ELSE st

\* Variant of MetadataAnnotator that does not consult the skip set
MetadataAnnotator_NoSkip(hm, req) ==
    LogDebug(hm, IncomingFrom(hm, req, NewPass(EmptyMap), 1))

\* Variant of MetadataAnnotator that skips every path below a skip entry
MetadataAnnotator_PrefixSkip(hm, req) ==
    IF \E p \in hm.skipPaths : HasPrefix(req.Path, p)
    THEN NewPass(EmptyMap)
    ELSE LogDebug(hm, IncomingFrom(hm, req, NewPass(EmptyMap), 1))

\* MetadataAnnotator: the function the gateway calls with the HTTP request
MetadataAnnotator(hm, req) ==
    IF req.Path \in hm.skipPaths
    THEN NewPass(EmptyMap)
    ELSE LogDebug(hm, IncomingFrom(hm, req, NewPass(EmptyMap), 1))

\* ResponseModifier: the function the gateway calls with the response writer.
\* ctx is what runtime.ServerMetadataFromContext yields: [ok, HeaderMD]; w is
\* the header of the response writer on entry.
ResponseModifier(hm, ctx, w) ==
    IF ~ctx.ok
    THEN NewPass(w)
    ELSE LogDebug(hm, OutgoingFrom(hm, ctx.HeaderMD, NewPass(w), 1))

(***************************************************************************)
(* gRPC interceptors.  A context is [ok, md, depth]: whether it carries      *)
(* incoming metadata, that metadata, and how many times                     *)
(* metadata.NewIncomingContext has derived it from the context of the call. *)
(* A handler is [kind, resp, err]; calling it yields its response and error *)
(* and the list of contexts (or streams) it was invoked with.               *)
(***************************************************************************)
Background == [ok |-> FALSE, md |-> EmptyMap, depth |-> 0]    \* context.Background()
\* the loop "for k, v := range md { newMD.Set(k, v...) }"
CopyMD(md) ==
    LET keys == {StrToLower(k) : k \in {x \in DOMAIN md : Len(md[x]) > 0}}
    IN [k \in keys |-> md[CHOOSE x \in DOMAIN md : Len(md[x]) > 0 /\ StrToLower(x) = k]]

\* processIncomingMetadata: the metadata is copied; the loop over the mappings
\* has an empty body
processIncomingMetadata(hm, ctx) ==
    IF ~ctx.ok THEN ctx
    ELSE [ok |-> TRUE, md |-> CopyMD(ctx.md), depth |-> ctx.depth + 1]

\* handler(ctx, req) for the handlers used: one answers with what it is
\* made of, one with the user-id it finds in its context
Handle(handler, ctx, req) ==
    [resp |-> IF handler.kind = "echo" THEN MDGet(ctx.md, Str_userid) ELSE handler.resp,
     err |-> handler.err,
     handled |-> <<ctx>>]

\* Variant of UnaryServerInterceptor that processes the metadata of skipped
\* methods too
UnaryServerInterceptor_NoSkip(hm, ctx, req, info, handler) ==
    Handle(handler, processIncomingMetadata(hm, ctx), req)

\* UnaryServerInterceptor
UnaryServerInterceptor(hm, ctx, req, info, handler) ==
    IF info.FullMethod \in hm.skipPaths
    THEN Handle(handler, ctx, req)
    ELSE LET newCtx == processIncomingMetadata(hm, ctx)
         IN Handle(handler, newCtx, req)

\* a grpc.ServerStream is [ctx, wrapped]; handler(srv, stream) returns an error
HandleStream(handler, srv, ss) ==
    [resp |-> <<>>, err |-> handler.err, handled |-> <<ss>>]

\* StreamServerInterceptor
StreamServerInterceptor(hm, srv, ss, info, handler) ==
    IF info.FullMethod \in hm.skipPaths
    THEN HandleStream(handler, srv, ss)
    ELSE LET wrappedStream == [ctx |-> processIncomingMetadata(hm, ss.ctx),
                               wrapped |-> TRUE]
         IN HandleStream(handler, srv, wrappedStream)

\* grpc-gateway runtime.DefaultHeaderMatcher: [key, ok]
DefaultHeaderMatcher(key) ==
    LET k == CanonicalMIMEHeaderKey(key) IN
    IF k \in PermanentHTTPHeaders
    THEN [key |-> Str_MetadataPrefix \o k, ok |-> TRUE]
    ELSE IF HasPrefix(k, Str_MetadataHeaderPrefix)
    THEN [key |-> SubSeq(k, Len(Str_MetadataHeaderPrefix) + 1, Len(k)), ok |-> TRUE]
    ELSE [key |-> <<>>, ok |-> FALSE]

\* Variant of the lookup map that keeps the declared spelling of the names
RECURSIVE HeaderMapFrom_NoLower(_, _, _)
HeaderMapFrom_NoLower(hm, headerMap, i) ==
    IF i > Len(hm.config.Mappings) THEN headerMap
    ELSE LET mapping == hm.config.Mappings[i]
         IN HeaderMapFrom_NoLower(hm,
                IF mapping.Direction # Outgoing
                THEN MapPut(headerMap, mapping.HTTPHeader, mapping.GRPCMetadata)
                ELSE headerMap,
                i + 1)

\* Variant of the lookup map that also holds the Outgoing rules
RECURSIVE HeaderMapFrom_AllDirections(_, _, _)
HeaderMapFrom_AllDirections(hm, headerMap, i) ==
    IF i > Len(hm.config.Mappings) THEN headerMap
    ELSE LET mapping == hm.config.Mappings[i]
             key == IF ~hm.config.CaseSensitive
                    THEN StrToLower(mapping.HTTPHeader) ELSE mapping.HTTPHeader
         IN HeaderMapFrom_AllDirections(hm,
                MapPut(headerMap, key, mapping.GRPCMetadata), i + 1)

\* Variant of the lookup map in which the first rule of a name keeps its entry
RECURSIVE HeaderMapFrom_FirstWins(_, _, _)
HeaderMapFrom_FirstWins(hm, headerMap, i) ==
    IF i > Len(hm.config.Mappings) THEN headerMap
    ELSE LET mapping == hm.config.Mappings[i]
             key == IF ~hm.config.CaseSensitive
                    THEN StrToLower(mapping.HTTPHeader) ELSE mapping.HTTPHeader
         IN HeaderMapFrom_FirstWins(hm,
                IF mapping.Direction # Outgoing /\ key \notin DOMAIN headerMap
                THEN MapPut(headerMap, key, mapping.GRPCMetadata) ELSE headerMap,
                i + 1)

\* HeaderMatcher, first half: the lookup map built when the matcher is created
RECURSIVE HeaderMapFrom(_, _, _)
HeaderMapFrom(hm, headerMap, i) ==
    IF i > Len(hm.config.Mappings) THEN headerMap
    ELSE LET mapping == hm.config.Mappings[i]
             key == IF ~hm.config.CaseSensitive
                    THEN StrToLower(mapping.HTTPHeader) ELSE mapping.HTTPHeader
         IN HeaderMapFrom(hm,
                IF mapping.Direction # Outgoing
                THEN MapPut(headerMap, key, mapping.GRPCMetadata) ELSE headerMap,
                i + 1)

\* HeaderMatcher, second half: the returned closure, called with a header name
MatcherFunc(hm, headerMap, key) ==
    LET searchKey == IF ~hm.config.CaseSensitive THEN StrToLower(key) ELSE key
        def == DefaultHeaderMatcher(key)
    IN IF searchKey \in DOMAIN headerMap
       THEN [key |-> headerMap[searchKey], exists |-> TRUE]
       ELSE IF ~def.ok \/ def.key = <<>>
       THEN [key |-> Str_GrpcMetadataDash \o StrToLower(ReplaceUnderscore(key)),
             exists |-> TRUE]
       ELSE [key |-> def.key, exists |-> TRUE]

HeaderMatcher(hm, key) == MatcherFunc(hm, HeaderMapFrom(hm, EmptyMap, 1), key)

\* Stats, without LastUpdated (the wall clock at the time of the call)
Stats(incoming, outgoing, failed) ==
    [IncomingMappings |-> incoming, OutgoingMappings |-> outgoing, FailedMappings |-> failed]
\* GetStats
GetStats(hm) == Stats(0, 0, 0)

(***************************************************************************)
(* Validation.  An error value holds what fmt.Errorf was given; NoError is  *)
(* the nil error, NilConfig the nil *Config.                               *)
(***************************************************************************)
NilConfig == [nil |-> TRUE]
NoError == [msg |-> "nil"]
ErrConfigNil == [msg |-> "configuration is nil"]
ErrHTTPHeaderEmpty(i) == [msg |-> "mapping %d: HTTPHeader cannot be empty", mapping |-> i]
ErrGRPCMetadataEmpty(i) == [msg |-> "mapping %d: GRPCMetadata cannot be empty", mapping |-> i]
ErrDuplicate(key, d1, d2) ==
    [msg |-> "duplicate mapping found: %s (directions: %d, %d)",
     key |-> key, directions |-> <<d1, d2>>]
Str_Arrow == <<"-", ">">>

\* ValidateConfig: the loop from the mapping at position i (from 1) on; seen
\* is keyed by fmt.Sprintf("%s->%s", HTTPHeader, GRPCMetadata)
RECURSIVE ValidateConfigFrom(_, _, _)
ValidateConfigFrom(cfg, seen, i) ==
    IF i > Len(cfg.Mappings) THEN NoError
    ELSE LET mapping == cfg.Mappings[i]
             key == mapping.HTTPHeader \o Str_Arrow \o mapping.GRPCMetadata
         IN IF mapping.HTTPHeader = <<>> THEN ErrHTTPHeaderEmpty(i - 1)
            ELSE IF mapping.GRPCMetadata = <<>> THEN ErrGRPCMetadataEmpty(i - 1)
            ELSE IF key \in DOMAIN seen
                 THEN ErrDuplicate(key, seen[key].Direction, mapping.Direction)
            ELSE ValidateConfigFrom(cfg, MapPut(seen, key, mapping), i + 1)
ValidateConfig(cfg) ==
    IF cfg = NilConfig THEN ErrConfigNil ELSE ValidateConfigFrom(cfg, EmptyMap, 1)

\* Variant of Validate that also rejects repeated mappings
Validate_RejectsDuplicates(hm) == ValidateConfig(hm.config)

\* HeaderMapper.Validate: the loop from the mapping at position i (from 1) on
RECURSIVE ValidateFrom(_, _)
ValidateFrom(hm, i) ==
    IF i > Len(hm.config.Mappings) THEN NoError
    ELSE LET mapping == hm.config.Mappings[i]
         IN IF mapping.HTTPHeader = <<>> THEN ErrHTTPHeaderEmpty(i - 1)
            ELSE IF mapping.GRPCMetadata = <<>> THEN ErrGRPCMetadataEmpty(i - 1)
            ELSE ValidateFrom(hm, i + 1)
Validate(hm) ==
    IF hm.config = NilConfig THEN ErrConfigNil ELSE ValidateFrom(hm, 1)
(***************************************************************************)
(* Builder: each method as a function of the Config it works on            *)
(***************************************************************************)
AddMapping(cfg, httpHeader, grpcMetadata, direction) ==
    [cfg EXCEPT !.Mappings = Append(@, HeaderMapping(httpHeader, grpcMetadata, direction))]
AddIncomingMapping(cfg, httpHeader, grpcMetadata) ==
    AddMapping(cfg, httpHeader, grpcMetadata, Incoming)
AddOutgoingMapping(cfg, grpcMetadata, httpHeader) ==
    AddMapping(cfg, httpHeader, grpcMetadata, Outgoing)
AddBidirectionalMapping(cfg, httpHeader, grpcMetadata) ==
    AddMapping(cfg, httpHeader, grpcMetadata, Bidirectional)
WithTransform(cfg, transform) ==
    IF Len(cfg.Mappings) > 0
    THEN [cfg EXCEPT !.Mappings[Len(cfg.Mappings)].Transform = transform] ELSE cfg
\* Variant of WithRequired that marks every mapping added so far
WithRequired_AllMappings(cfg, required) ==
    [cfg EXCEPT !.Mappings = [i \in DOMAIN cfg.Mappings |->
                                 [cfg.Mappings[i] EXCEPT !.Required = required]]]
WithRequired(cfg, required) ==
    IF Len(cfg.Mappings) > 0
    THEN [cfg EXCEPT !.Mappings[Len(cfg.Mappings)].Required = required] ELSE cfg
WithDefault(cfg, defaultValue) ==
    IF Len(cfg.Mappings) > 0
    THEN [cfg EXCEPT !.Mappings[Len(cfg.Mappings)].DefaultValue = defaultValue] ELSE cfg
SkipPaths(cfg, paths) == [cfg EXCEPT !.SkipPaths = paths]
CaseSensitive(cfg, caseSensitive) == [cfg EXCEPT !.CaseSensitive = caseSensitive]
OverwriteExisting(cfg, overwrite) == [cfg EXCEPT !.OverwriteExisting = overwrite]
Debug(cfg, debug) == [cfg EXCEPT !.Debug = debug]

(***************************************************************************)
(* Bounds and the inputs explored                                          *)
(***************************************************************************)
MaxMappings == 2    \* mappings a Builder is given
MaxWarns == 2       \* Warn calls the recording logger stores
NThreads == 2       \* goroutines that call the mapper at the same time

Str_v1 == <<"v","1">>
Str_v2 == <<"v","2">>
Str_v == <<"v">>
Str_v0 == <<"v","0">>

\* (HTTP header, gRPC metadata key) pairs given to the Add...Mapping methods:
\* two headers for one key, one header for two keys, and unrelated pairs
RulePairs ==
    { <<Str_xuserid, Str_userid>>, <<Str_XTraceID, Str_traceid>>,
      <<Str_XTraceID, Str_userid>> }
TransformChoices == {RemovePrefix(Str_v)}
DefaultChoices == {<<>>, Str_v0}
SkipChoices == {<<Str_health>>}

\* a request as the HTTP server hands it over: the header names it was sent with
\* are canonicalised when the request is read
NewRequest(path, sent) ==
    [Path |-> path,
     Header |-> [k \in {CanonicalMIMEHeaderKey(n) : n \in DOMAIN sent} |->
                    sent[CHOOSE n \in DOMAIN sent : CanonicalMIMEHeaderKey(n) = k]]]
SentHeaders ==
    { EmptyMap,
      (Str_XUserId :> <<Str_v1>>),
      (Str_XUserId :> <<Str_v>>),
      (Str_XUserId :> <<<<>>>>),
      (Str_XTraceID :> <<Str_v2>>),
      (Str_XUserId :> <<Str_v1>>) @@ (Str_XTraceID :> <<Str_v2>>) }
Requests ==
    {NewRequest(Str_api, h) : h \in SentHeaders}
    \cup {NewRequest(Str_health, h) :
            h \in {EmptyMap, (Str_XUserId :> <<Str_v1>>) @@ (Str_XTraceID :> <<Str_v2>>)}}

\* response metadata as the gateway stores it in the context
NoServerMetadata == [ok |-> FALSE, HeaderMD |-> EmptyMap]
ResponseMDs ==
    { EmptyMap,
      (Str_userid :> <<Str_v1>>),
      (Str_userid :> <<Str_v, Str_v2>>),
      (Str_traceid :> <<Str_v2>>),
      (Str_userid :> <<Str_v1, Str_v2>>) @@ (Str_traceid :> <<Str_v2>>) }
Contexts == {NoServerMetadata} \cup {[ok |-> TRUE, HeaderMD |-> md] : md \in ResponseMDs}
\* the header of the response writer before the modifier runs
PresetSink == HeaderSet(EmptyMap, Str_XTraceID, Str_v0)
ModifierInputs ==
    {<<ctx, EmptyMap>> : ctx \in Contexts}
    \cup {<<[ok |-> TRUE, HeaderMD |-> md], PresetSink>> : md \in
            {EmptyMap, (Str_userid :> <<Str_v1, Str_v2>>) @@ (Str_traceid :> <<Str_v2>>)}}
\* header names handed to the matcher: the spellings of one name, and a name
\* no rule declares
MatcherKeys == {Str_XUserID_decl, Str_xuserid, Str_XUserId, Str_XTraceID, Str_userid}
\* rules whose header names differ in letter case only, with equal and with
\* different keys
CasePairs ==
    { <<Str_xuserid, Str_userid>>, <<Str_XUserID_decl, Str_userid>>,
      <<Str_XUserID_decl, Str_traceid>>, <<Str_XTraceID, Str_traceid>> }
Directions == {Incoming, Outgoing, Bidirectional}
\* calls that reach the interceptors: the context with and without incoming
\* metadata (its keys are lower case, as the transport delivers them), the
\* full method, the wrapped handler
Str_request == <<"t","e","s","t"," ","r","e","q","u","e","s","t">>
Str_response == <<"t","e","s","t"," ","r","e","s","p","o","n","s","e">>
Str_xtraceid == <<"x","-","t","r","a","c","e","-","i","d">>
NewIncomingContext(md) == [ok |-> TRUE, md |-> md, depth |-> 1]
IncomingContexts ==
    { Background,
      NewIncomingContext(EmptyMap),
      NewIncomingContext((Str_xuserid :> <<Str_v1>>)),
      NewIncomingContext((Str_xuserid :> <<Str_v1, Str_v2>>) @@ (Str_xtraceid :> <<Str_v2>>)),
      NewIncomingContext((Str_userid :> <<Str_v>>) @@ (Str_xtraceid :> <<Str_v2>>)) }
Methods == {Str_api, Str_health}
ErrHandler == [msg |-> "handler failed"]
Handlers ==
    { [kind |-> "fixed", resp |-> Str_response, err |-> NoError],
      [kind |-> "fixed", resp |-> <<>>, err |-> ErrHandler],
      [kind |-> "echo", resp |-> <<>>, err |-> NoError] }
\* transforms given to ChainTransforms, nil among them, and the values the
\* chains are called on
MaxChain == 3       \* transforms in one chain
MaxShow == 3        \* showChars given to MaskSensitive
Str_Bearer == <<"B","e","a","r","e","r"," ">>
Str_BearerPadded == <<" "," ","B","e","a","r","e","r"," ","a","b","c","1","2","3"," "," ">>
Str_abc123 == <<"a","b","c","1","2","3">>
Str_BearerToken == <<"B","e","a","r","e","r"," ","T","O","K","E","N">>
Str_aB == <<" ","a","B"," ">>
Str_x == <<"x">>
ChainLinks == {NilTransform, FnTrimSpace, FnToLower, RemovePrefix(Str_Bearer), AddPrefix(Str_x)}
Chains == UNION {[1..n -> ChainLinks] : n \in 0..MaxChain}
ChainInputs == {<<>>, Str_BearerPadded, Str_BearerToken, Str_aB}
\* values given to MaskSensitive; a two-byte UTF-8 character is its two bytes
Byte_C3 == "0xC3"
Byte_A9 == "0xA9"
Str_abcdefghijk == <<"a","b","c","d","e","f","g","h","i","j","k">>
Str_abcijk == <<"a","b","c","i","j","k">>
Str_ab == <<"a", "b">>
Str_e_acute == <<Byte_C3, Byte_A9>>
Str_e_acute_a == <<Byte_C3, Byte_A9, "a">>
MaskInputs == {<<>>, Str_ab, Str_abcijk, Str_abcdefghijk, Str_e_acute, Str_e_acute_a}
\* names given to the mappings that are validated
Str_a == <<"a">>
Str_c == <<"c">>
Str_a_b == <<"a", "-", ">", "b">>
Str_b_c == <<"b", "-", ">", "c">>
ValidateHeaders == {<<>>, Str_a, Str_a_b}
ValidateKeys == {<<>>, Str_c, Str_b_c}

(***************************************************************************)
(* The state machine                                                       *)
(***************************************************************************)
NoRequest == [Path |-> <<>>, Header |-> EmptyMap]
NoHandler == [kind |-> "none", resp |-> <<>>, err |-> NoError]
NoCall ==
    [op |-> "none", req |-> NoRequest, ctx |-> NoServerMetadata, w |-> EmptyMap,
     key |-> <<>>, out |-> EmptyMap, warns |-> <<>>, debugs |-> 0,
     grpcKey |-> <<>>, exists |-> FALSE, stats |-> Stats(0, 0, 0),
     cfg |-> NilConfig, err |-> NoError,
     inctx |-> Background, method |-> <<>>, handler |-> NoHandler,
     resp |-> <<>>, handled |-> <<>>,
     fn |-> NilTransform, value |-> <<>>, result |-> <<>>]

(***************************************************************************)
(* Invocations on concurrent goroutines.  Each runs the code of its         *)
(* function one loop iteration at a time: it reads hm.config and            *)
(* hm.skipPaths when the code does, and keeps what the code keeps in local  *)
(* variables (md, the writer's header, headerMap, newMD) in its own record. *)
(***************************************************************************)
Threads == 1..NThreads
NoInvocation ==
    [op |-> "none", req |-> NoRequest, ctx |-> NoServerMetadata, w |-> EmptyMap,
     key |-> <<>>, inctx |-> Background, method |-> <<>>, handler |-> NoHandler]
NoLocals == [st |-> NewPass(EmptyMap), headerMap |-> EmptyMap, newCtx |-> Background]
IdleThread == [pc |-> "idle", inv |-> NoInvocation, i |-> 0, locals |-> NoLocals,
               result |-> <<>>]
Running(inv, locals) == [pc |-> "run", inv |-> inv, i |-> 1, locals |-> locals, result |-> <<>>]
Finished(inv, result) == [pc |-> "done", inv |-> inv, i |-> 0, locals |-> NoLocals,
                          result |-> result]

\* the function up to its loop over the mappings
ThreadBegin(hm, inv) ==
    CASE inv.op = "MetadataAnnotator" ->
            IF inv.req.Path \in hm.skipPaths
            THEN Finished(inv, NewPass(EmptyMap))
            ELSE Running(inv, [NoLocals EXCEPT !.st = NewPass(EmptyMap)])
      [] inv.op = "ResponseModifier" ->
            IF ~inv.ctx.ok
            THEN Finished(inv, NewPass(inv.w))
            ELSE Running(inv, [NoLocals EXCEPT !.st = NewPass(inv.w)])
      [] inv.op = "HeaderMatcher" ->
            Running(inv, [NoLocals EXCEPT !.headerMap = EmptyMap])
      [] inv.op = "UnaryServerInterceptor" ->
            IF inv.method \in hm.skipPaths \/ ~inv.inctx.ok
            THEN Finished(inv, Handle(inv.handler, inv.inctx, Str_request))
            ELSE Running(inv, [NoLocals EXCEPT
                                  !.newCtx = [ok |-> TRUE, md |-> CopyMD(inv.inctx.md),
                                              depth |-> inv.inctx.depth + 1]])

\* one iteration of the loop over the mappings, or what follows the loop
ThreadAdvance(hm, th) ==
    LET inv == th.inv
        l == th.locals
    IN IF th.i > Len(hm.config.Mappings)
       THEN Finished(inv,
                CASE inv.op \in {"MetadataAnnotator", "ResponseModifier"} -> LogDebug(hm, l.st)
                  [] inv.op = "HeaderMatcher" -> MatcherFunc(hm, l.headerMap, inv.key)
                  [] inv.op = "UnaryServerInterceptor" ->
                        Handle(inv.handler, l.newCtx, Str_request))
       ELSE LET mapping == hm.config.Mappings[th.i]
                key == IF ~hm.config.CaseSensitive
                       THEN StrToLower(mapping.HTTPHeader) ELSE mapping.HTTPHeader
            IN [th EXCEPT
                  !.i = @ + 1,
                  !.locals =
                     CASE inv.op = "MetadataAnnotator" ->
                             [l EXCEPT !.st = IF mapping.Direction = Outgoing THEN l.st
                                             ELSE mapIncomingHeader(hm, inv.req, l.st, mapping)]
                       [] inv.op = "ResponseModifier" ->
                             [l EXCEPT !.st = IF mapping.Direction = Incoming THEN l.st
                                             ELSE mapOutgoingHeader(hm, inv.ctx.HeaderMD,
                                                                    l.st, mapping)]
                       [] inv.op = "HeaderMatcher" ->
                             [l EXCEPT !.headerMap =
                                 IF mapping.Direction # Outgoing
                                 THEN MapPut(l.headerMap, key, mapping.GRPCMetadata)
                                 ELSE l.headerMap]
                       [] inv.op = "UnaryServerInterceptor" -> l]

\* what the goroutines are started with
Invocations ==
    {[NoInvocation EXCEPT !.op = "MetadataAnnotator", !.req = r] :
        r \in { NewRequest(Str_api, (Str_XUserId :> <<Str_v1>>)),
                NewRequest(Str_api, (Str_XUserId :> <<Str_v>>) @@ (Str_XTraceID :> <<Str_v2>>)),
                NewRequest(Str_health, (Str_XUserId :> <<Str_v1>>)) }}
    \cup {[NoInvocation EXCEPT !.op = "ResponseModifier", !.ctx = c] :
        c \in { NoServerMetadata,
                [ok |-> TRUE,
                 HeaderMD |-> (Str_userid :> <<Str_v1, Str_v2>>) @@ (Str_traceid :> <<Str_v2>>)] }}
    \cup {[NoInvocation EXCEPT !.op = "HeaderMatcher", !.key = Str_XUserId]}
    \cup {[NoInvocation EXCEPT !.op = "UnaryServerInterceptor",
              !.inctx = NewIncomingContext((Str_xuserid :> <<Str_v1>>)),
              !.method = Str_api,
              !.handler = [kind |-> "echo", resp |-> <<>>, err |-> NoError]]}

Init ==
    /\ config = EmptyConfig     \* NewBuilder
    /\ built = FALSE
    /\ skipPaths = {}
    /\ logger = "NoOp"
    /\ warns = 0
    /\ call = NoCall
    /\ threads = [t \in Threads |-> IdleThread]

Unbuilt == UNCHANGED <<built, skipPaths, logger, warns, call, threads>>

AddMappingCall(h, g, d) ==
    /\ Len(config.Mappings) < MaxMappings
    /\ config' = AddMapping(config, h, g, d)
    /\ Unbuilt
AddIncomingMappingCall(h, g) ==
    /\ Len(config.Mappings) < MaxMappings
    /\ config' = AddIncomingMapping(config, h, g)
    /\ Unbuilt
AddOutgoingMappingCall(g, h) ==
    /\ Len(config.Mappings) < MaxMappings
    /\ config' = AddOutgoingMapping(config, g, h)
    /\ Unbuilt
AddBidirectionalMappingCall(h, g) ==
    /\ Len(config.Mappings) < MaxMappings
    /\ config' = AddBidirectionalMapping(config, h, g)
    /\ Unbuilt
WithTransformCall(t) == config' = WithTransform(config, t) /\ Unbuilt
WithRequiredCall(r) == config' = WithRequired(config, r) /\ Unbuilt
WithDefaultCall(d) == config' = WithDefault(config, d) /\ Unbuilt
SkipPathsCall(paths) == config' = SkipPaths(config, paths) /\ Unbuilt
CaseSensitiveCall(b) == config' = CaseSensitive(config, b) /\ Unbuilt
OverwriteExistingCall(b) == config' = OverwriteExisting(config, b) /\ Unbuilt
DebugCall(b) == config' = Debug(config, b) /\ Unbuilt

\* Build: NewHeaderMapper(b.config); the mapper keeps the Builder's *Config
Build ==
    /\ built' = TRUE
    /\ skipPaths' = NewSkipPaths(config)
    /\ logger' = "NoOp"
    /\ UNCHANGED <<config, warns, call, threads>>

\* SetLogger with a logger that stores what it is given
SetLogger ==
    /\ built
    /\ logger' = "test"
    /\ UNCHANGED <<config, built, skipPaths, warns, call, threads>>

\* what the logger in place does with n Warn calls
Logged(n) == IF logger = "test" THEN warns + n ELSE warns

\* An engine function is invoked when no result is pending, or once more with
\* the inputs of the pending invocation; Return hands the result to the caller.
Idle == call.op = "none"

MetadataAnnotatorCall(req) ==
    /\ built
    /\ Idle \/ (call.op = "MetadataAnnotator" /\ call.req = req)
    /\ \E st \in {MetadataAnnotator(HM, req)} :
        /\ Logged(Len(st.warns)) <= MaxWarns
        /\ warns' = Logged(Len(st.warns))
        /\ call' = [NoCall EXCEPT !.op = "MetadataAnnotator", !.req = req,
                                  !.out = st.out, !.warns = st.warns, !.debugs = st.debugs]
    /\ UNCHANGED <<config, built, skipPaths, logger, threads>>

\* Variant of ResponseModifier in which the mapper keeps the header values of
\* its previous run and adds the new ones to them
ResponseModifierCall_Accumulating(ctx, w) ==
    /\ built
    /\ Idle \/ (call.op = "ResponseModifier" /\ call.ctx = ctx /\ call.w = w)
    /\ \E st \in {ResponseModifier(HM, ctx, w)} :
        /\ Logged(Len(st.warns)) <= MaxWarns
        /\ warns' = Logged(Len(st.warns))
        /\ call' = [NoCall EXCEPT
                      !.op = "ResponseModifier", !.ctx = ctx, !.w = w,
                      !.out = [n \in DOMAIN st.out |->
                                 IF call.op = "ResponseModifier" /\ n \in DOMAIN call.out
                                    /\ Len(call.out[n]) < 2
                                 THEN call.out[n] \o st.out[n] ELSE st.out[n]],
                      !.warns = st.warns, !.debugs = st.debugs]
    /\ UNCHANGED <<config, built, skipPaths, logger, threads>>

ResponseModifierCall(ctx, w) ==
    /\ built
    /\ Idle \/ (call.op = "ResponseModifier" /\ call.ctx = ctx /\ call.w = w)
    /\ \E st \in {ResponseModifier(HM, ctx, w)} :
        /\ Logged(Len(st.warns)) <= MaxWarns
        /\ warns' = Logged(Len(st.warns))
        /\ call' = [NoCall EXCEPT !.op = "ResponseModifier", !.ctx = ctx, !.w = w,
                                  !.out = st.out, !.warns = st.warns, !.debugs = st.debugs]
    /\ UNCHANGED <<config, built, skipPaths, logger, threads>>

HeaderMatcherCall(key) ==
    /\ built
    /\ Idle
    /\ \E r \in {HeaderMatcher(HM, key)} :
        call' = [NoCall EXCEPT !.op = "HeaderMatcher", !.key = key,
                               !.grpcKey = r.key, !.exists = r.exists]
    /\ UNCHANGED <<config, built, skipPaths, logger, warns, threads>>

GetStatsCall ==
    /\ built
    /\ Idle
    /\ call' = [NoCall EXCEPT !.op = "GetStats", !.stats = GetStats(HM)]
    /\ UNCHANGED <<config, built, skipPaths, logger, warns, threads>>

\* Validate, on the mapper built or on a mapper without Config
\* (&HeaderMapper{config: nil})
ValidateCall(hm) ==
    /\ Idle
    /\ call' = [NoCall EXCEPT !.op = "Validate", !.cfg = hm.config, !.err = Validate(hm)]
    /\ UNCHANGED <<config, built, skipPaths, logger, warns, threads>>

\* ValidateConfig, on the Config assembled so far or on nil
ValidateConfigCall(cfg) ==
    /\ Idle
    /\ call' = [NoCall EXCEPT !.op = "ValidateConfig", !.cfg = cfg,
                               !.err = ValidateConfig(cfg)]
    /\ UNCHANGED <<config, built, skipPaths, logger, warns, threads>>

UnaryServerInterceptorCall(ctx, method, handler) ==
    /\ built
    /\ Idle
    /\ \E r \in {UnaryServerInterceptor(HM, ctx, Str_request, [FullMethod |-> method], handler)} :
        call' = [NoCall EXCEPT !.op = "UnaryServerInterceptor", !.inctx = ctx,
                               !.method = method, !.handler = handler,
                               !.resp = r.resp, !.err = r.err, !.handled = r.handled]
    /\ UNCHANGED <<config, built, skipPaths, logger, warns, threads>>

StreamServerInterceptorCall(ss, method, handler) ==
    /\ built
    /\ Idle
    /\ \E r \in {StreamServerInterceptor(HM, Str_request, ss, [FullMethod |-> method], handler)} :
        call' = [NoCall EXCEPT !.op = "StreamServerInterceptor", !.inctx = ss.ctx,
                               !.method = method, !.handler = handler,
                               !.resp = r.resp, !.err = r.err, !.handled = r.handled]
    /\ UNCHANGED <<config, built, skipPaths, logger, warns, threads>>

\* a TransformFunc called on a value, as mapIncomingHeader calls
\* mapping.Transform(headerValue)
TransformCall(f, v) ==
    /\ Idle
    /\ f # NilTransform
    /\ call' = [NoCall EXCEPT !.op = "Transform", !.fn = f, !.value = v,
                               !.result = CallTransform(f, v)]
    /\ UNCHANGED <<config, built, skipPaths, logger, warns, threads>>

\* goroutine t enters one of the functions of the mapper
ThreadStart(t, inv) ==
    /\ built
    /\ threads[t].pc = "idle"
    /\ threads' = [threads EXCEPT ![t] = ThreadBegin(HM, inv)]
    /\ UNCHANGED <<config, built, skipPaths, logger, warns, call>>

\* Variant of a goroutine's step in which the mapper keeps the collection being
\* written in one place for all invocations
ThreadStep_SharedScratch(t) ==
    /\ threads[t].pc = "run"
    /\ \E th \in {ThreadAdvance(HM, [threads[t] EXCEPT !.locals.st.out = call.out])} :
        /\ threads' = [threads EXCEPT ![t] = th]
        /\ call' = [call EXCEPT !.out = IF th.pc = "run" THEN th.locals.st.out ELSE @]
    /\ UNCHANGED <<config, built, skipPaths, logger, warns>>

\* Variant of a goroutine's step in which the function removes from its input
\* the headers and metadata it has read
ThreadStep_ConsumesInput(t) ==
    /\ threads[t].pc = "run"
    /\ threads' = [threads EXCEPT ![t] =
                      [ThreadAdvance(HM, threads[t]) EXCEPT
                          !.inv.req.Header = EmptyMap,
                          !.inv.ctx.HeaderMD = EmptyMap,
                          !.inv.inctx.md = EmptyMap]]
    /\ UNCHANGED <<config, built, skipPaths, logger, warns, call>>

\* goroutine t runs its function one iteration further
ThreadStep(t) ==
    /\ threads[t].pc = "run"
    /\ threads' = [threads EXCEPT ![t] = ThreadAdvance(HM, threads[t])]
    /\ UNCHANGED <<config, built, skipPaths, logger, warns, call>>

\* the function of goroutine t returns to its caller
ThreadReturn(t) ==
    /\ threads[t].pc = "done"
    /\ threads' = [threads EXCEPT ![t] = IdleThread]
    /\ UNCHANGED <<config, built, skipPaths, logger, warns, call>>

Return ==
    /\ ~Idle
    /\ call' = NoCall
    /\ UNCHANGED <<config, built, skipPaths, logger, warns, threads>>

BuilderStep ==
    \/ \E p \in RulePairs : AddIncomingMappingCall(p[1], p[2])
    \/ \E p \in RulePairs : AddOutgoingMappingCall(p[2], p[1])
    \/ \E p \in RulePairs : AddBidirectionalMappingCall(p[1], p[2])
    \/ \E t \in TransformChoices : WithTransformCall(t)
    \/ \E r \in BOOLEAN : WithRequiredCall(r)
    \/ \E d \in DefaultChoices : WithDefaultCall(d)
    \/ \E paths \in SkipChoices : SkipPathsCall(paths)
    \/ \E b \in BOOLEAN : OverwriteExistingCall(b)

Next ==
    \/ ~built /\ BuilderStep
    \/ ~built /\ Build
    \/ \E req \in Requests : MetadataAnnotatorCall(req)
    \/ \E inp \in ModifierInputs : ResponseModifierCall(inp[1], inp[2])
    \/ Return

Spec == Init /\ [][Next]_vars

\* A program that installs a recording logger right after Build, sends
\* requests through MetadataAnnotator and reads the counters with GetStats
NextStats ==
    \/ ~built /\ \E p \in RulePairs : AddIncomingMappingCall(p[1], p[2])
    \/ ~built /\ \E r \in BOOLEAN : WithRequiredCall(r)
    \/ ~built /\ \E d \in DefaultChoices : WithDefaultCall(d)
    \/ ~built /\ Build
    \/ logger = "NoOp" /\ Idle /\ SetLogger
    \/ logger = "test" /\ \E req \in Requests : MetadataAnnotatorCall(req)
    \/ logger = "test" /\ GetStatsCall
    \/ Return

SpecStats == Init /\ [][NextStats]_vars

\* A program that declares header names in several spellings, with either
\* case policy, and uses MetadataAnnotator and the HeaderMatcher function
NextCase ==
    \/ ~built /\ \E p \in CasePairs, d \in Directions : AddMappingCall(p[1], p[2], d)
    \/ ~built /\ \E b \in BOOLEAN : CaseSensitiveCall(b)
    \/ ~built /\ \E b \in BOOLEAN : OverwriteExistingCall(b)
    \/ ~built /\ Build
    \/ \E req \in Requests : MetadataAnnotatorCall(req)
    \/ \E key \in MatcherKeys : HeaderMatcherCall(key)
    \/ Return

SpecCase == Init /\ [][NextCase]_vars

\* A program that assembles mappings, some with empty names, some repeated,
\* some with "->" inside a name, and validates them both ways
NextValidate ==
    \/ ~built /\ \E h \in ValidateHeaders, g \in ValidateKeys, d \in {Incoming, Outgoing} :
                    AddMappingCall(h, g, d)
    \/ ~built /\ Build
    \/ built /\ ValidateCall(HM)
    \/ ValidateCall([config |-> NilConfig, skipPaths |-> {}])
    \/ \E cfg \in {config, NilConfig} : ValidateConfigCall(cfg)
    \/ Return

SpecValidate == Init /\ [][NextValidate]_vars

\* A gRPC server that installs both interceptors of the mapper
NextIntercept ==
    \/ ~built /\ \E p \in RulePairs : AddIncomingMappingCall(p[1], p[2])
    \/ ~built /\ \E p \in RulePairs : AddOutgoingMappingCall(p[2], p[1])
    \/ ~built /\ \E p \in RulePairs : AddBidirectionalMappingCall(p[1], p[2])
    \/ ~built /\ \E t \in TransformChoices : WithTransformCall(t)
    \/ ~built /\ \E paths \in SkipChoices : SkipPathsCall(paths)
    \/ ~built /\ Build
    \/ \E ctx \in IncomingContexts, method \in Methods, handler \in Handlers :
          UnaryServerInterceptorCall(ctx, method, handler)
    \/ \E ctx \in IncomingContexts, method \in Methods, handler \in Handlers :
          StreamServerInterceptorCall([ctx |-> ctx, wrapped |-> FALSE], method, handler)
    \/ Return

SpecIntercept == Init /\ [][NextIntercept]_vars

\* A program that calls transformation functions on values
NextTransform ==
    \/ \E fs \in Chains, v \in ChainInputs : TransformCall(ChainTransforms(fs), v)
    \/ \E n \in (-1)..MaxShow, v \in MaskInputs : TransformCall(MaskSensitive(n), v)
    \/ \E n \in (-1)..MaxShow, v \in MaskInputs : TransformCall(Truncate(n), v)
    \/ Return

SpecTransform == Init /\ [][NextTransform]_vars

\* A gateway and gRPC server that serve requests on several goroutines with
\* one mapper
NextConc ==
    \/ ~built /\ \E p \in RulePairs : AddBidirectionalMappingCall(p[1], p[2])
    \/ ~built /\ \E d \in DefaultChoices : WithDefaultCall(d)
    \/ ~built /\ \E b \in BOOLEAN : OverwriteExistingCall(b)
    \/ ~built /\ \E paths \in SkipChoices : SkipPathsCall(paths)
    \/ ~built /\ Build
    \/ \E t \in Threads, inv \in Invocations : ThreadStart(t, inv)
    \/ \E t \in Threads : ThreadStep(t)
    \/ \E t \in Threads : ThreadReturn(t)

SpecConc == Init /\ [][NextConc]_vars

\* the requests sent while the Builder is still in use
AliasRequests ==
    { NewRequest(Str_api, EmptyMap),
      NewRequest(Str_api, (Str_XUserId :> <<Str_v1>>)),
      NewRequest(Str_health, (Str_XUserId :> <<Str_v1>>) @@ (Str_XTraceID :> <<Str_v2>>)) }

\* A program that keeps calling the Builder it obtained the mapper from: Build
\* hands b.config, a *Config, to NewHeaderMapper, so config is the one Config
\* the Builder and the mapper both point to, while skipPaths is the mapper's own
NextAlias ==
    \/ \E p \in RulePairs : AddIncomingMappingCall(p[1], p[2])
    \/ \E t \in TransformChoices : WithTransformCall(t)
    \/ \E r \in BOOLEAN : WithRequiredCall(r)
    \/ \E d \in DefaultChoices : WithDefaultCall(d)
    \/ \E paths \in SkipChoices : SkipPathsCall(paths)
    \/ \E b \in BOOLEAN : CaseSensitiveCall(b)
    \/ \E b \in BOOLEAN : OverwriteExistingCall(b)
    \/ \E b \in BOOLEAN : DebugCall(b)
    \/ ~built /\ Build
    \/ \E req \in AliasRequests : MetadataAnnotatorCall(req)
    \/ Return

SpecAlias == Init /\ [][NextAlias]_vars
(***************************************************************************)
(* Vocabulary of the properties: what a rule is expected to do, stated     *)
(* rule by rule, independently of the loops above                          *)
(***************************************************************************)
Mappings == config.Mappings
Annotated == call.op = "MetadataAnnotator"
Modified == call.op = "ResponseModifier"
Skipped == call.req.Path \in skipPaths
Inbound(m) == m.Direction \in {Incoming, Bidirectional}
Outbound(m) == m.Direction \in {Outgoing, Bidirectional}
Transformed(m, v) == IF m.Transform = NilTransform THEN v ELSE CallTransform(m.Transform, v)

\* the value the request of the pending call carries for rule m ("" when none)
Carried(m) == HeaderGet(call.req.Header, m.HTTPHeader)
\* the value rule m has to map on the way in: the carried one, else its default
InValue(m) == IF Carried(m) # <<>> THEN Carried(m) ELSE m.DefaultValue
\* rule i writes its key on the way in
InWriter(i) == Inbound(Mappings[i]) /\ InValue(Mappings[i]) # <<>>
InWriters(key) == {i \in DOMAIN Mappings : InWriter(i) /\ Mappings[i].GRPCMetadata = key}
\* rule i is required, has no default and finds no value on the way in
MissingRequired(i) ==
    /\ Inbound(Mappings[i]) /\ Mappings[i].Required
    /\ Mappings[i].DefaultValue = <<>> /\ Carried(Mappings[i]) = <<>>
Min(S) == CHOOSE x \in S : \A y \in S : x <= y
Max(S) == CHOOSE x \in S : \A y \in S : x >= y
\* the writer of key that the overwrite policy lets win
InWinner(key) == IF config.OverwriteExisting THEN Max(InWriters(key)) ELSE Min(InWriters(key))

\* C1: with overwriteExisting=false and a path outside the skip set, every
\* Incoming or Bidirectional rule whose header carries a non-empty value V leaves
\* its key holding transform(V) (V without a transform), unless an earlier rule
\* wrote that key; every key of the returned metadata is the key of an Incoming
\* or Bidirectional rule, so Outgoing rules write nothing.
C1_InboundMapping ==
    (Annotated /\ ~Skipped /\ ~config.OverwriteExisting) =>
        /\ \A i \in DOMAIN Mappings :
              LET m == Mappings[i] IN
              (/\ Inbound(m) /\ Carried(m) # <<>>
               /\ \A j \in InWriters(m.GRPCMetadata) : j >= i)
              => MDGet(call.out, m.GRPCMetadata) = <<Transformed(m, Carried(m))>>
        /\ \A k \in DOMAIN call.out :
              \E i \in DOMAIN Mappings : Inbound(Mappings[i]) /\ Mappings[i].GRPCMetadata = k
C1_Witness ==
    /\ Annotated /\ ~Skipped /\ ~config.OverwriteExisting
    /\ Len(Mappings) = 2
    /\ Mappings[1].Direction = Outgoing /\ Mappings[1].GRPCMetadata = Str_traceid
    /\ Mappings[2].Direction = Incoming /\ Mappings[2].Transform # NilTransform
    /\ Carried(Mappings[2]) = Str_v1
    /\ call.out = (Str_userid :> << <<"1">> >>)

\* C2: when two or more Incoming/Bidirectional rules that target one key yield a
\* value in one MetadataAnnotator call, the key ends with exactly one value: the
\* one of the earliest such rule with overwriteExisting=false, the one of the
\* latest such rule with overwriteExisting=true.
C2_FirstOrLastWriterWins ==
    (Annotated /\ ~Skipped) =>
        \A i \in DOMAIN Mappings :
            LET key == Mappings[i].GRPCMetadata IN
            Cardinality(InWriters(key)) >= 2 =>
                LET m == Mappings[InWinner(key)]
                IN MDGet(call.out, key) = <<Transformed(m, InValue(m))>>
C2_Witness ==
    /\ Annotated /\ ~Skipped /\ config.OverwriteExisting
    /\ Len(Mappings) = 2
    /\ InWriters(Str_userid) = {1, 2}
    /\ Transformed(Mappings[1], InValue(Mappings[1])) = Str_v1
    /\ call.out = (Str_userid :> <<Str_v2>>)

\* C3: for a request whose path is in the skip set MetadataAnnotator returns
\* empty metadata and evaluates no rule (no default is written, no required
\* header is reported missing), whatever the request carries.
C3_SkipPathEmpty ==
    (Annotated /\ Skipped) => (call.out = EmptyMap /\ call.warns = <<>>)
C3_Witness ==
    /\ Annotated /\ Skipped
    /\ Len(Mappings) = 2
    /\ Inbound(Mappings[1]) /\ Mappings[1].DefaultValue # <<>>
    /\ Inbound(Mappings[2]) /\ Mappings[2].Required /\ Mappings[2].DefaultValue = <<>>
    /\ Carried(Mappings[1]) # <<>> /\ Carried(Mappings[2]) # <<>>
    /\ call.out = EmptyMap
\* the engine as it would be had rule i never been added
RemoveAt(seq, i) == SubSeq(seq, 1, i - 1) \o SubSeq(seq, i + 1, Len(seq))
HMWithout(i) ==
    [config |-> [config EXCEPT !.Mappings = RemoveAt(Mappings, i)], skipPaths |-> skipPaths]

\* C4: a required Incoming/Bidirectional rule without default whose header is
\* missing does not stop MetadataAnnotator: the call returns, the metadata is
\* exactly what the rule set without that rule produces, and the rule's key is
\* unset unless another rule writes it.
C4_MissingRequiredLeavesRest ==
    (Annotated /\ ~Skipped) =>
        \A i \in DOMAIN Mappings :
            MissingRequired(i) =>
                /\ call.out = MetadataAnnotator(HMWithout(i), call.req).out
                /\ InWriters(Mappings[i].GRPCMetadata) = {}
                    => Mappings[i].GRPCMetadata \notin DOMAIN call.out
C4_Witness ==
    /\ Annotated /\ ~Skipped
    /\ Len(Mappings) = 2
    /\ MissingRequired(1) /\ Mappings[1].GRPCMetadata = Str_userid
    /\ InWriter(2) /\ Mappings[2].GRPCMetadata = Str_traceid
    /\ call.out = (Str_traceid :> <<Str_v2>>)
    /\ call.warns = <<Mappings[1].HTTPHeader>>

Returned(m) == MDGet(call.ctx.HeaderMD, m.GRPCMetadata)
\* rule i has something to write on the way out: a returned value, else a default
OutWriter(i) ==
    /\ Outbound(Mappings[i])
    /\ Len(Returned(Mappings[i])) > 0 \/ Mappings[i].DefaultValue # <<>>
\* what rule i writes: the transform of the first returned value, else of the default
OutProduced(i) ==
    LET m == Mappings[i]
    IN Transformed(m, IF Len(Returned(m)) > 0 THEN Returned(m)[1] ELSE m.DefaultValue)
OutWriters(name) ==
    {i \in DOMAIN Mappings : OutWriter(i) /\ CanonicalMIMEHeaderKey(Mappings[i].HTTPHeader) = name}
\* the header names the rules can write, and the ones the writer held on entry
OutNames == {CanonicalMIMEHeaderKey(Mappings[i].HTTPHeader) : i \in DOMAIN Mappings}
\* the entry of header name after the call, as the rules and the overwrite policy fix it
ExpectedEntry(name) ==
    LET W == OutWriters(name)
        NonEmpty == {i \in W : OutProduced(i) # <<>>}
    IN IF W = {} THEN call.w[name]
       ELSE IF config.OverwriteExisting THEN <<OutProduced(Max(W))>>
       ELSE IF HeaderGet(call.w, name) # <<>> THEN call.w[name]
       ELSE IF NonEmpty # {} THEN <<OutProduced(Min(NonEmpty))>>
       ELSE << <<>> >>

\* C7 as stated, for a response header that is empty on entry: every
\* Outgoing/Bidirectional rule whose key holds values in the response metadata
\* leaves its header equal to transform(first value); with the key missing the
\* header holds the default if there is one; nothing else is written.
C7_AsStated ==
    (Modified /\ call.ctx.ok /\ call.w = EmptyMap) =>
        /\ \A i \in DOMAIN Mappings :
              LET m == Mappings[i] IN
              Outbound(m) =>
                 /\ Len(Returned(m)) > 0
                     => HeaderGet(call.out, m.HTTPHeader) = Transformed(m, Returned(m)[1])
                 /\ (Len(Returned(m)) = 0 /\ m.DefaultValue # <<>>)
                     => HeaderGet(call.out, m.HTTPHeader) = m.DefaultValue
        /\ \A name \in (DOMAIN call.out) \cup (DOMAIN call.w) :
              OutWriters(name) = {} => (name \in DOMAIN call.w /\ name \in DOMAIN call.out
                                         /\ call.out[name] = call.w[name])

\* C7 amended: an Outgoing/Bidirectional rule produces transform(first returned
\* value), or transform(default) when its key is missing and it has a default,
\* and nothing otherwise; the response ends with, for each header: the value of
\* the last producing rule when overwriteExisting=true; when it is false, the
\* non-empty value the header had on entry, else the first non-empty value
\* produced for it, else the empty value if a rule produced one; a header no
\* rule produces for (Incoming rules produce nothing) is left as it was.
C7_OutboundMapping ==
    Modified =>
        IF ~call.ctx.ok THEN call.out = call.w
        ELSE /\ DOMAIN call.out = (DOMAIN call.w) \cup {n \in OutNames : OutWriters(n) # {}}
             /\ \A name \in DOMAIN call.out : call.out[name] = ExpectedEntry(name)
C7_Witness ==
    /\ Modified /\ call.ctx.ok /\ call.w = EmptyMap
    /\ Len(Mappings) = 2
    /\ Mappings[1].Direction = Outgoing /\ Mappings[1].Transform # NilTransform
    /\ Returned(Mappings[1]) = <<Str_v1, Str_v2>>
    /\ Mappings[2].Direction = Incoming /\ Mappings[2].DefaultValue # <<>>
    /\ Mappings[2].HTTPHeader # Mappings[1].HTTPHeader
    /\ call.out = (CanonicalMIMEHeaderKey(Mappings[1].HTTPHeader) :> << <<"1">> >>)

WithOptions(cfg, m) ==
    WithDefault(WithRequired(WithTransform(cfg, m.Transform), m.Required), m.DefaultValue)
RECURSIVE SplitFrom(_, _, _)
SplitFrom(cfg, i, k) ==
    IF k > Len(Mappings) THEN cfg
    ELSE LET m == Mappings[k]
         IN SplitFrom(
              IF k = i
              THEN WithOptions(AddOutgoingMapping(
                       WithOptions(AddIncomingMapping(cfg, m.HTTPHeader, m.GRPCMetadata), m),
                       m.GRPCMetadata, m.HTTPHeader), m)
              ELSE WithOptions(AddMapping(cfg, m.HTTPHeader, m.GRPCMetadata, m.Direction), m),
              i, k + 1)
HMSplit(i) ==
    [config |-> SplitFrom([config EXCEPT !.Mappings = <<>>], i, 1),
     skipPaths |-> NewSkipPaths(config)]

\* C9: an engine built with a Bidirectional rule returns the metadata and writes
\* the headers of the engine built with an Incoming and an Outgoing rule for the
\* same pair in its place.
C9_BidirectionalIsPair ==
    \A i \in DOMAIN Mappings :
        Mappings[i].Direction = Bidirectional =>
            /\ Annotated => call.out = MetadataAnnotator(HMSplit(i), call.req).out
            /\ Modified => call.out = ResponseModifier(HMSplit(i), call.ctx, call.w).out
C9_Witness ==
    /\ Modified /\ call.ctx.ok
    /\ Len(Mappings) = 2
    /\ Mappings[1].Direction = Bidirectional /\ Mappings[1].Transform # NilTransform
    /\ Mappings[1].DefaultValue # <<>> /\ Mappings[1].Required
    /\ Mappings[2].Direction = Bidirectional
    /\ Len(HMSplit(1).config.Mappings) = 3
    /\ Cardinality(DOMAIN call.out) = 2

\* C5 as stated: the FailedMappings counter GetStats returns equals the number
\* of missing-required events (a required rule without default whose header is
\* absent) of the MetadataAnnotator calls made so far; the recording logger
\* holds one Warn entry for each of them.
C5_FailedCounterCounts ==
    call.op = "GetStats" => call.stats.FailedMappings = warns

\* the names of the pending request that equal the header of rule i when letter
\* case is ignored and that carry a non-empty value
CaseMatches(i) ==
    {n \in DOMAIN call.req.Header :
        /\ StrToLower(n) = StrToLower(Mappings[i].HTTPHeader)
        /\ Len(call.req.Header[n]) > 0 /\ call.req.Header[n][1] # <<>>}
CaseWriters(key) ==
    {i \in DOMAIN Mappings :
        Inbound(Mappings[i]) /\ Mappings[i].GRPCMetadata = key /\ CaseMatches(i) # {}}
CaseWinner(key) ==
    IF config.OverwriteExisting THEN Max(CaseWriters(key)) ELSE Min(CaseWriters(key))
CaseValue(i) == call.req.Header[CHOOSE n \in CaseMatches(i) : TRUE][1]
\* the rules HeaderMatcher considers whose header equals the name asked for when
\* letter case is ignored
CaseRules ==
    {i \in DOMAIN Mappings :
        /\ Mappings[i].Direction # Outgoing
        /\ StrToLower(Mappings[i].HTTPHeader) = StrToLower(call.key)}

\* C10: with CaseSensitive=false, MetadataAnnotator maps a request header whose
\* name equals a rule's HTTPHeader up to letter case (the key holds the value of
\* the matching rule the overwrite policy lets win), and the HeaderMatcher
\* function, asked for a name that equals the HTTPHeader of a non-Outgoing rule
\* up to letter case, returns the GRPCMetadata of such a rule (the last one).
C10_CaseInsensitiveMatching ==
    ~config.CaseSensitive =>
        /\ (Annotated /\ ~Skipped) =>
              \A i \in DOMAIN Mappings :
                  (Inbound(Mappings[i]) /\ CaseMatches(i) # {}) =>
                      LET w == CaseWinner(Mappings[i].GRPCMetadata)
                      IN MDGet(call.out, Mappings[i].GRPCMetadata)
                            = <<Transformed(Mappings[w], CaseValue(w))>>
        /\ (call.op = "HeaderMatcher" /\ CaseRules # {}) =>
              /\ call.exists
              /\ call.grpcKey = Mappings[Max(CaseRules)].GRPCMetadata
C10_Witness ==
    /\ call.op = "HeaderMatcher" /\ ~config.CaseSensitive
    /\ call.key = Str_xuserid
    /\ Len(Mappings) = 1 /\ Mappings[1].HTTPHeader = Str_XUserID_decl
    /\ Mappings[1].Direction = Incoming
    /\ call.exists /\ call.grpcKey = Mappings[1].GRPCMetadata

\* C11 as stated: with CaseSensitive=true MetadataAnnotator treats a request
\* header whose name equals a rule's HTTPHeader up to letter case, but not
\* exactly, as absent: a rule without default that no other rule shares its key
\* with leaves the key unwritten.
C11_CaseSensitiveLookup ==
    (config.CaseSensitive /\ Annotated /\ ~Skipped) =>
        \A i \in DOMAIN Mappings :
            ( /\ Inbound(Mappings[i]) /\ CaseMatches(i) # {}
              /\ Mappings[i].HTTPHeader \notin DOMAIN call.req.Header
              /\ Mappings[i].DefaultValue = <<>>
              /\ \A j \in DOMAIN Mappings :
                    j # i => Mappings[j].GRPCMetadata # Mappings[i].GRPCMetadata )
            => MDGet(call.out, Mappings[i].GRPCMetadata) = <<>>

\* C12 as stated: once Build has returned the mapper, no step changes the rules,
\* the policy flags or the skip set the mapper works with, and MetadataAnnotator
\* called again with the request of the previous call returns the same metadata.
C12_BuiltEngineImmutable ==
    [][built =>
          /\ HM' = HM
          /\ (Annotated /\ call'.op = "MetadataAnnotator" /\ call'.req = call.req)
                => call'.out = call.out]_vars

\* after is before with only field f of the last mapping set to v; the same
\* Config when before has no mapping
LastFieldOnly(before, after, f, v) ==
    LET n == Len(before.Mappings) IN
    IF n = 0 THEN after = before
    ELSE /\ DOMAIN after = DOMAIN before
         /\ \A g \in DOMAIN before : g # "Mappings" => after[g] = before[g]
         /\ Len(after.Mappings) = n
         /\ \A i \in 1..(n - 1) : after.Mappings[i] = before.Mappings[i]
         /\ DOMAIN after.Mappings[n] = DOMAIN before.Mappings[n]
         /\ after.Mappings[n][f] = v
         /\ \A g \in DOMAIN before.Mappings[n] :
               g # f => after.Mappings[n][g] = before.Mappings[n][g]

\* C14: in every state a sequence of Builder calls reaches, WithTransform,
\* WithRequired and WithDefault change only the Transform, Required or
\* DefaultValue field of the last mapping and nothing else of the Config, and
\* leave the Config as it is when no mapping has been added.
C14_WithChangesLastMappingOnly ==
    /\ \A t \in TransformChoices \cup {NilTransform} :
          LastFieldOnly(config, WithTransform(config, t), "Transform", t)
    /\ \A r \in BOOLEAN :
          LastFieldOnly(config, WithRequired(config, r), "Required", r)
    /\ \A d \in DefaultChoices :
          LastFieldOnly(config, WithDefault(config, d), "DefaultValue", d)
C14_Witness ==
    /\ ~built /\ Len(Mappings) = 2
    /\ Mappings[1] = HeaderMapping(Str_xuserid, Str_userid, Incoming)
    /\ Mappings[2].Transform # NilTransform /\ Mappings[2].Required
    /\ Mappings[2].DefaultValue # <<>>
    /\ ~config.OverwriteExisting /\ config.SkipPaths # <<>>

\* what the two validations are said to reject
HasEmptyName(cfg) ==
    \E i \in DOMAIN cfg.Mappings :
        cfg.Mappings[i].HTTPHeader = <<>> \/ cfg.Mappings[i].GRPCMetadata = <<>>
HasRepeatedPair(cfg) ==
    \E i, j \in DOMAIN cfg.Mappings :
        /\ i < j
        /\ cfg.Mappings[i].HTTPHeader = cfg.Mappings[j].HTTPHeader
        /\ cfg.Mappings[i].GRPCMetadata = cfg.Mappings[j].GRPCMetadata

\* C15: Validate returns an error exactly when the mapper has no Config or a
\* mapping has an empty HTTPHeader or an empty GRPCMetadata; repeated pairs
\* with non-empty names pass.
C15_ValidateRejectsEmptyNamesOnly ==
    call.op = "Validate" =>
        (call.err # NoError <=> (call.cfg = NilConfig \/ HasEmptyName(call.cfg)))
C15_Witness ==
    /\ call.op = "Validate" /\ call.cfg # NilConfig
    /\ HasRepeatedPair(call.cfg) /\ ~HasEmptyName(call.cfg)
    /\ call.err = NoError

\* C16 as stated: ValidateConfig returns an error exactly when the Config is
\* nil, a mapping has an empty HTTPHeader or GRPCMetadata, or two mappings have
\* the same (HTTPHeader, GRPCMetadata) pair.
C16_ValidateConfigRejectsRepeatedPairs ==
    call.op = "ValidateConfig" =>
        (call.err # NoError <=>
            (call.cfg = NilConfig \/ HasEmptyName(call.cfg) \/ HasRepeatedPair(call.cfg)))

Intercepted == call.op \in {"UnaryServerInterceptor", "StreamServerInterceptor"}
\* the context the wrapped handler was invoked with
HandlerContext ==
    IF call.op = "StreamServerInterceptor" THEN call.handled[1].ctx ELSE call.handled[1]

\* C17 as stated: for a method outside the skip set, the context handed to the
\* wrapped handler carries, for every Incoming or Bidirectional rule whose
\* HTTPHeader the incoming metadata holds with first value V, and whose key no
\* other rule writes, transform(V) under the rule's GRPCMetadata.
C17_InterceptorAppliesRules ==
    (Intercepted /\ call.method \notin skipPaths /\ call.inctx.ok) =>
        \A i \in DOMAIN Mappings :
            ( /\ Inbound(Mappings[i])
              /\ MDGet(call.inctx.md, Mappings[i].HTTPHeader) # <<>>
              /\ \A j \in DOMAIN Mappings :
                    j # i => Mappings[j].GRPCMetadata # Mappings[i].GRPCMetadata )
            => MDGet(HandlerContext.md, Mappings[i].GRPCMetadata)
                  = <<Transformed(Mappings[i], MDGet(call.inctx.md, Mappings[i].HTTPHeader)[1])>>

\* C18: UnaryServerInterceptor invokes the wrapped handler once and returns the
\* response and the error the handler gave for the context it was invoked
\* with; for a method in the skip set that context is the context of the call.
C18_UnaryHandlerCalledOnce ==
    call.op = "UnaryServerInterceptor" =>
        /\ Len(call.handled) = 1
        /\ call.resp = Handle(call.handler, call.handled[1], Str_request).resp
        /\ call.err = call.handler.err
        /\ call.method \in skipPaths => call.handled[1] = call.inctx
C18_Witness ==
    /\ call.op = "UnaryServerInterceptor"
    /\ call.method \in skipPaths /\ call.inctx.ok /\ call.inctx.md # EmptyMap
    /\ call.err = ErrHandler /\ call.handled = <<call.inctx>>
    /\ Len(Mappings) > 0

Called == call.op = "Transform"
\* fn(...f2(f1(v))...), from the last transform back, a nil one being the identity
RECURSIVE Composed(_, _)
Composed(fs, v) ==
    IF fs = <<>> THEN v
    ELSE LET inner == Composed(SubSeq(fs, 1, Len(fs) - 1), v)
             f == fs[Len(fs)]
         IN IF f = NilTransform THEN inner ELSE CallTransform(f, inner)

\* C19: the function ChainTransforms(f1, ..., fn) returns maps every v to
\* fn(...f2(f1(v))...), nil entries being skipped and the empty chain being the
\* identity; ChainTransforms(TrimSpace, RemovePrefix("Bearer ")) maps
\* "  Bearer abc123  " to "abc123".
C19_ChainLeftToRight ==
    (Called /\ call.fn.op = "ChainTransforms") =>
        /\ call.result = Composed(call.fn.fs, call.value)
        /\ call.fn.fs = <<>> => call.result = call.value
        /\ (call.fn.fs = <<FnTrimSpace, RemovePrefix(Str_Bearer)>>
            /\ call.value = Str_BearerPadded) => call.result = Str_abc123
C19_Witness ==
    /\ Called /\ call.fn = ChainTransforms(<<FnTrimSpace, NilTransform, RemovePrefix(Str_Bearer)>>)
    /\ call.value = Str_BearerPadded /\ call.result = Str_abc123

\* the characters of a value: a lead byte with the continuation byte after it
\* is one character, any other byte is one character
RECURSIVE Runes(_)
Runes(s) ==
    IF s = <<>> THEN <<>>
    ELSE IF Len(s) >= 2 /\ s[1] = Byte_C3 /\ s[2] = Byte_A9
         THEN <<SubSeq(s, 1, 2)>> \o Runes(SubSeq(s, 3, Len(s)))
         ELSE <<SubSeq(s, 1, 1)>> \o Runes(Tail(s))
\* out is v with everything masked when v has at most 2n units, and with all
\* but the first n and last n units masked otherwise
MaskedLike(v, out, n) ==
    /\ Len(out) = Len(v)
    /\ \A i \in DOMAIN v :
          out[i] = IF Len(v) > 2 * n /\ (i <= n \/ i > Len(v) - n) THEN v[i] ELSE "*"
Masking == Called /\ call.fn.op = "MaskSensitive" /\ call.fn.arg >= 0

Alone(inv) ==
    CASE inv.op = "MetadataAnnotator" -> MetadataAnnotator(HM, inv.req)
      [] inv.op = "ResponseModifier" -> ResponseModifier(HM, inv.ctx, inv.w)
      [] inv.op = "HeaderMatcher" -> HeaderMatcher(HM, inv.key)
      [] inv.op = "UnaryServerInterceptor" ->
            UnaryServerInterceptor(HM, inv.inctx, Str_request,
                                   [FullMethod |-> inv.method], inv.handler)

\* C13: whatever the interleaving of the invocations in progress, no step of
\* an invocation changes the mappings, the policy flags or the skip set of the
\* mapper, and every invocation that has finished holds the result it returns
\* when run alone.
C13_ConcurrentInvocationsIndependent ==
    [][built =>
          /\ HM' = HM
          /\ \A t \in Threads :
                threads'[t].pc = "done" => threads'[t].result = Alone(threads'[t].inv)]_vars
C13_Witness ==
    /\ Len(Mappings) = 2 /\ config.OverwriteExisting
    /\ threads[1].pc = "done" /\ threads[1].inv.op = "MetadataAnnotator"
    /\ threads[1].result.out # EmptyMap
    /\ threads[2].pc = "run" /\ threads[2].i = 2
    /\ threads[2].inv.op = "ResponseModifier"
    /\ threads[2].locals.st.out # EmptyMap

\* C21 as stated: a transform called on a value returns a string, whatever the
\* value and whatever parameter it was constructed with, n < 0 included.
C21_TransformsNeverPanic ==
    Called => call.result # Panic


(***************************************************************************)
(* Predefined mappings                                                     *)
(***************************************************************************)
Str_UserAgent == <<"U","s","e","r","-","A","g","e","n","t">>
Str_Authorization == <<"A","u","t","h","o","r","i","z","a","t","i","o","n">>
Str_ContentType == <<"C","o","n","t","e","n","t","-","T","y","p","e">>
Str_Accept == <<"A","c","c","e","p","t">>
Str_XRequestID == <<"X","-","R","e","q","u","e","s","t","-","I","D">>
Str_XCorrelationID == <<"X","-","C","o","r","r","e","l","a","t","i","o","n","-","I","D">>
Str_XAPIKey == <<"X","-","A","P","I","-","K","e","y">>
Str_XSpanID == <<"X","-","S","p","a","n","-","I","D">>
Str_user_agent == <<"u","s","e","r","-","a","g","e","n","t">>
Str_authorization == <<"a","u","t","h","o","r","i","z","a","t","i","o","n">>
Str_content_type == <<"c","o","n","t","e","n","t","-","t","y","p","e">>
Str_accept == <<"a","c","c","e","p","t">>
Str_x_request_id == <<"x","-","r","e","q","u","e","s","t","-","i","d">>
Str_x_correlation_id == <<"x","-","c","o","r","r","e","l","a","t","i","o","n","-","i","d">>
Str_x_api_key == <<"x","-","a","p","i","-","k","e","y">>
Str_x_span_id == <<"x","-","s","p","a","n","-","i","d">>
CommonMappings ==
    << HeaderMapping(Str_UserAgent, Str_user_agent, Incoming),
       HeaderMapping(Str_Authorization, Str_authorization, Incoming),
       HeaderMapping(Str_ContentType, Str_content_type, Bidirectional),
       HeaderMapping(Str_Accept, Str_accept, Incoming),
       HeaderMapping(Str_XRequestID, Str_x_request_id, Bidirectional),
       HeaderMapping(Str_XCorrelationID, Str_x_correlation_id, Bidirectional) >>
AuthMappings ==
    << [HeaderMapping(Str_Authorization, Str_authorization, Incoming) EXCEPT !.Required = TRUE],
       HeaderMapping(Str_XAPIKey, Str_x_api_key, Incoming),
       HeaderMapping(Str_XUserID_decl, Str_xuserid, Bidirectional) >>
TracingMappings ==
    << HeaderMapping(Str_XTraceID, Str_xtraceid, Bidirectional),
       HeaderMapping(Str_XSpanID, Str_x_span_id, Bidirectional),
       HeaderMapping(Str_XRequestID, Str_x_request_id, Bidirectional),
       HeaderMapping(Str_XCorrelationID, Str_x_correlation_id, Bidirectional) >>

Bundles == {CommonMappings, AuthMappings, TracingMappings}
\* the longest rule list assembled: one bundle of each kind
MaxBundleRules == 13

\* config.Mappings = append(config.Mappings, bundle...)
AppendMappings(cfg, bundle) == [cfg EXCEPT !.Mappings = @ \o bundle]
AppendMappingsCall(bundle) ==
    /\ Len(config.Mappings) + Len(bundle) <= MaxBundleRules
    /\ config' = AppendMappings(config, bundle)
    /\ Unbuilt

\* A program that assembles its Config from the predefined bundles, builds the
\* mapper and validates it both ways
NextBundles ==
    \/ ~built /\ \E b \in Bundles : AppendMappingsCall(b)
    \/ ~built /\ Build
    \/ built /\ ValidateCall(HM)
    \/ ValidateConfigCall(config)
    \/ Return

SpecBundles == Init /\ [][NextBundles]_vars

\* the rule lists made of two or three different bundles, in any order
DistinctConcatenations ==
    { p[1] \o p[2] : p \in { q \in Bundles \X Bundles : q[1] # q[2] } }
    \cup { p[1] \o p[2] \o p[3] :
             p \in { q \in Bundles \X Bundles \X Bundles :
                       q[1] # q[2] /\ q[1] # q[3] /\ q[2] # q[3] } }

\* C22 as stated: a rule list that is one predefined bundle, or different
\* bundles one after the other, has no empty HTTPHeader or GRPCMetadata and is
\* accepted by Validate and by ValidateConfig.
C22_BundlesAreValid ==
    ( /\ call.op \in {"Validate", "ValidateConfig"}
      /\ call.cfg # NilConfig
      /\ call.cfg.Mappings \in Bundles \cup DistinctConcatenations ) =>
        (~HasEmptyName(call.cfg) /\ call.err = NoError)


(***************************************************************************)
(* The header matcher handed to the gateway                                *)
(***************************************************************************)
\* names no rule declares: one with an underscore, a permanent HTTP header, a
\* name with the gateway's metadata prefix
Str_X_Custom == <<"X","_","C","u","s","t","o","m">>
Str_GrpcMetadataFoo == <<"G","r","p","c","-","M","e","t","a","d","a","t","a","-","F","o","o">>
FallbackKeys == {Str_X_Custom, Str_Accept, Str_GrpcMetadataFoo}

\* A gateway that asks the matcher about declared and undeclared header names
NextMatcher ==
    \/ ~built /\ \E p \in CasePairs, d \in Directions : AddMappingCall(p[1], p[2], d)
    \/ ~built /\ \E b \in BOOLEAN : CaseSensitiveCall(b)
    \/ ~built /\ \E b \in BOOLEAN : OverwriteExistingCall(b)
    \/ ~built /\ Build
    \/ \E key \in MatcherKeys \cup FallbackKeys : HeaderMatcherCall(key)
    \/ Return

SpecMatcher == Init /\ [][NextMatcher]_vars

\* two header names are the same name under the case policy in force
SameName(a, b) ==
    IF config.CaseSensitive THEN a = b ELSE StrToLower(a) = StrToLower(b)
\* the Incoming and Bidirectional rules declared for the name asked for
MatcherRules ==
    {i \in DOMAIN Mappings :
        Mappings[i].Direction # Outgoing /\ SameName(Mappings[i].HTTPHeader, call.key)}
NoSharedName ==
    \A i, j \in DOMAIN Mappings :
        ( /\ i # j
          /\ Mappings[i].Direction # Outgoing /\ Mappings[j].Direction # Outgoing )
            => ~SameName(Mappings[i].HTTPHeader, Mappings[j].HTTPHeader)
\* the key for a name without rule: the gateway's own answer when it has one
GatewayKey(name, manual) ==
    IF DefaultHeaderMatcher(name).ok /\ DefaultHeaderMatcher(name).key # <<>>
    THEN DefaultHeaderMatcher(name).key
    ELSE Str_GrpcMetadataDash \o manual

\* C23 as stated: when no two Incoming or Bidirectional rules share a header
\* name, HeaderMatcher answers exists=true for every name; the key is the
\* GRPCMetadata of the Incoming or Bidirectional rule declared for the name
\* (under the case policy), and for every other name the gateway's default key
\* or, when there is none, "grpc-metadata-" followed by the lower-cased name.
C23_FallbackIsLowerCasedName ==
    (call.op = "HeaderMatcher" /\ NoSharedName) =>
        /\ call.exists
        /\ \A i \in MatcherRules : call.grpcKey = Mappings[i].GRPCMetadata
        /\ MatcherRules = {} =>
              call.grpcKey = GatewayKey(call.key, StrToLower(call.key))

\* C23, amended: as above, but the manual fallback key is "grpc-metadata-"
\* followed by the name with every "_" replaced by "-" and then lower-cased.
C23_MatcherAlwaysExists ==
    (call.op = "HeaderMatcher" /\ NoSharedName) =>
        /\ call.exists
        /\ \A i \in MatcherRules : call.grpcKey = Mappings[i].GRPCMetadata
        /\ MatcherRules = {} =>
              call.grpcKey = GatewayKey(call.key, StrToLower(ReplaceUnderscore(call.key)))
\* a name declared by an Outgoing rule only gets the fallback key
C23_Witness ==
    /\ call.op = "HeaderMatcher" /\ call.key = Str_XUserID_decl
    /\ Len(Mappings) = 1 /\ Mappings[1].Direction = Outgoing
    /\ Mappings[1].HTTPHeader = Str_XUserID_decl
    /\ call.exists /\ call.grpcKey = Str_GrpcMetadataDash \o Str_xuserid


(***************************************************************************)
(* Response headers that are already there                                 *)
(***************************************************************************)
\* a response writer whose X-Trace-ID header was set to "" before the modifier
\* runs
EmptySink == HeaderSet(EmptyMap, Str_XTraceID, <<>>)
OverwriteSinks == {EmptyMap, PresetSink, EmptySink}

\* A gateway whose handlers or middleware set response headers before the
\* modifier maps the server metadata
NextOverwrite ==
    \/ ~built /\ \E p \in RulePairs : AddOutgoingMappingCall(p[2], p[1])
    \/ ~built /\ \E t \in TransformChoices : WithTransformCall(t)
    \/ ~built /\ \E b \in BOOLEAN : OverwriteExistingCall(b)
    \/ ~built /\ Build
    \/ \E md \in ResponseMDs, w \in OverwriteSinks :
          ResponseModifierCall([ok |-> TRUE, HeaderMD |-> md], w)
    \/ Return

SpecOverwrite == Init /\ [][NextOverwrite]_vars

\* C24 as stated: with overwriteExisting=false every header the writer held
\* before the call keeps its value, the empty one included, and a header the
\* writer did not hold has the value of the first rule that writes it; with
\* overwriteExisting=true a header some rule writes has the value of the last
\* such rule.
C24_PresentHeaderKept ==
    Modified =>
        /\ ~config.OverwriteExisting =>
              /\ \A n \in DOMAIN call.w : call.out[n] = call.w[n]
              /\ \A name \in OutNames \ DOMAIN call.w :
                    OutWriters(name) # {} =>
                        call.out[name] = <<OutProduced(Min(OutWriters(name)))>>
        /\ config.OverwriteExisting =>
              \A name \in OutNames :
                  OutWriters(name) # {} =>
                      call.out[name] = <<OutProduced(Max(OutWriters(name)))>>


(***************************************************************************)
(* Routes in and near the skip set                                         *)
(***************************************************************************)
Str_metrics == <<"/","m","e","t","r","i","c","s">>
Str_health_advanced ==
    <<"/","h","e","a","l","t","h","/","a","d","v","a","n","c","e","d">>
Str_Health == <<"/","H","e","a","l","t","h">>
Str_health_slash == <<"/","h","e","a","l","t","h","/">>
\* the paths of the requests served and the full methods of the calls
\* intercepted: a skip entry, a path below it, its spelling in another letter
\* case and with a trailing slash, and an unrelated route
Routes == {Str_health, Str_health_advanced, Str_Health, Str_health_slash, Str_api}
SkipLists == {<<Str_health>>, <<Str_health, Str_metrics>>, <<Str_api>>}
RouteRequests ==
    {NewRequest(path, h) : path \in Routes,
                           h \in {EmptyMap, (Str_XUserId :> <<Str_v1>>)}}
RouteContexts ==
    { [ok |-> TRUE, HeaderMD |-> EmptyMap],
      [ok |-> TRUE, HeaderMD |-> (Str_userid :> <<Str_v1>>)] }

\* The gateway mux of CreateGatewayMux forwarding the response of the request
\* req: it calls the forward-response option, the function ResponseModifier
\* returned, with the context and the response writer.
ForwardResponse(hm, req, ctx, w) == ResponseModifier(hm, ctx, w)

ForwardResponseCall(req, ctx, w) ==
    /\ built
    /\ Idle
    /\ \E st \in {ForwardResponse(HM, req, ctx, w)} :
        /\ Logged(Len(st.warns)) <= MaxWarns
        /\ warns' = Logged(Len(st.warns))
        /\ call' = [NoCall EXCEPT !.op = "ResponseModifier", !.req = req,
                                  !.ctx = ctx, !.w = w,
                                  !.out = st.out, !.warns = st.warns, !.debugs = st.debugs]
    /\ UNCHANGED <<config, built, skipPaths, logger, threads>>

\* A gateway and a gRPC server that serve routes in and near the skip set; the
\* program goes on calling SkipPaths on its Builder after Build
NextSkip ==
    \/ ~built /\ \E p \in RulePairs : AddBidirectionalMappingCall(p[1], p[2])
    \/ ~built /\ \E d \in DefaultChoices : WithDefaultCall(d)
    \/ \E paths \in SkipLists : SkipPathsCall(paths)
    \/ ~built /\ Build
    \/ \E req \in RouteRequests : MetadataAnnotatorCall(req)
    \/ \E req \in RouteRequests, ctx \in RouteContexts : ForwardResponseCall(req, ctx, EmptyMap)
    \/ \E ctx \in IncomingContexts, method \in Routes :
          UnaryServerInterceptorCall(ctx, method, [kind |-> "echo", resp |-> <<>>, err |-> NoError])
    \/ \E ctx \in IncomingContexts, method \in Routes :
          StreamServerInterceptorCall([ctx |-> ctx, wrapped |-> FALSE], method,
                                      [kind |-> "echo", resp |-> <<>>, err |-> NoError])
    \/ Return

SpecSkip == Init /\ [][NextSkip]_vars

\* C25 as stated: when the path of the request served is in the skip set, the
\* response modifier leaves the response header as it found it: no rule writes
\* a header, no default is written.
C25_SkippedRouteOutboundUntouched ==
    (Modified /\ Skipped) => call.out = call.w

\* the mapper as it would be with an empty skip set
HMNoSkip == [config |-> config, skipPaths |-> {}]

\* C30: a route is skipped only when it equals an entry the skip list held
\* when the mapper was built.  MetadataAnnotator returns empty metadata for a
\* path that equals such an entry and, for every other path (a path below an
\* entry, another letter case, a trailing slash), what a mapper without skip
\* entries returns; the interceptors hand the handler the context of the call
\* for a full method that equals such an entry and the processed context for
\* every other one.  Skip lists given to the Builder after Build change nothing.
C30_SkipIsExactMatch ==
    /\ Annotated =>
          call.out = IF Skipped THEN EmptyMap
                     ELSE MetadataAnnotator(HMNoSkip, call.req).out
    /\ Intercepted =>
          HandlerContext = IF call.method \in skipPaths THEN call.inctx
                           ELSE processIncomingMetadata(HMNoSkip, call.inctx)

\* a path below the entry the mapper was built with is mapped, although the
\* Builder was given another skip list since
C30_Witness ==
    /\ Annotated /\ call.req.Path = Str_health_advanced
    /\ skipPaths = {Str_health} /\ config.SkipPaths = <<Str_api>>
    /\ Len(Mappings) = 1 /\ Carried(Mappings[1]) = Str_v1
    /\ call.out = (Mappings[1].GRPCMetadata :> <<Str_v1>>)


\* C26: no step of MetadataAnnotator, ResponseModifier, HeaderMatcher or an
\* interceptor changes the mappings, their fields, the policy flags or the skip
\* set of the mapper, and none changes what it was called with: the request
\* and its headers, the server metadata of the response context, the incoming
\* metadata of the gRPC context.
C26_EngineLeavesItsInputs ==
    [][built =>
          /\ config' = config /\ skipPaths' = skipPaths
          /\ \A t \in Threads :
                threads[t].pc = "run" =>
                    /\ threads'[t].inv.req = threads[t].inv.req
                    /\ threads'[t].inv.ctx = threads[t].inv.ctx
                    /\ threads'[t].inv.inctx = threads[t].inv.inctx]_vars
\* one invocation has mapped a header of its request, another has finished
\* mapping the metadata of its response
C26_Witness ==
    /\ Len(Mappings) = 2
    /\ threads[1].pc = "run" /\ threads[1].i = 3
    /\ threads[1].inv.op = "MetadataAnnotator"
    /\ threads[1].inv.req.Header # EmptyMap /\ threads[1].locals.st.out # EmptyMap
    /\ threads[2].pc = "done" /\ threads[2].inv.op = "ResponseModifier"
    /\ threads[2].inv.ctx.HeaderMD # EmptyMap /\ threads[2].result.out # EmptyMap


\* the request of the pending call without the headers whose value is empty
WithoutEmptyHeaders(req) ==
    [req EXCEPT !.Header =
        [k \in {n \in DOMAIN req.Header : HeaderGet(req.Header, n) # <<>>} |-> req.Header[k]]]
EmptyHeaders == {n \in DOMAIN call.req.Header : HeaderGet(call.req.Header, n) = <<>>}

\* C27: MetadataAnnotator returns for a request that carries headers with an
\* empty value the metadata and the warnings it returns for the same request
\* without those headers (default substituted, required rule reported, or rule
\* skipped), and a key whose value comes from a rule without transform never
\* holds the empty value.
C27_EmptyHeaderIsAbsent ==
    (Annotated /\ ~Skipped) =>
        /\ \A st \in {MetadataAnnotator(HM, WithoutEmptyHeaders(call.req))} :
              call.out = st.out /\ call.warns = st.warns
        /\ \A k \in DOMAIN call.out :
              (InWriters(k) # {} /\ Mappings[InWinner(k)].Transform = NilTransform)
                  => call.out[k] # << <<>> >>
\* a header sent with an empty value and a rule for it with a default
C27_Witness ==
    /\ Annotated /\ ~Skipped /\ EmptyHeaders = {Str_XUserId}
    /\ Len(Mappings) = 2
    /\ Inbound(Mappings[1]) /\ Mappings[1].HTTPHeader = Str_xuserid
    /\ Mappings[1].DefaultValue = Str_v0 /\ Mappings[1].Transform = NilTransform
    /\ call.out = (Mappings[1].GRPCMetadata :> <<Str_v0>>)


\* C28: a rule with a default and a transform whose source value is missing
\* writes the transform of the default, not the default: under its key in
\* MetadataAnnotator when the overwrite policy lets the rule win, under its
\* header in ResponseModifier when no other rule writes that header and the
\* overwrite policy lets the rule write.
C28_TransformAppliedToDefault ==
    /\ (Annotated /\ ~Skipped) =>
          \A i \in DOMAIN Mappings :
              LET m == Mappings[i] IN
              (/\ Inbound(m) /\ m.DefaultValue # <<>> /\ m.Transform # NilTransform
               /\ Carried(m) = <<>> /\ InWinner(m.GRPCMetadata) = i)
              => MDGet(call.out, m.GRPCMetadata)
                    = <<CallTransform(m.Transform, m.DefaultValue)>>
    /\ (Modified /\ call.ctx.ok) =>
          \A i \in DOMAIN Mappings :
              LET m == Mappings[i] IN
              (/\ Outbound(m) /\ m.DefaultValue # <<>> /\ m.Transform # NilTransform
               /\ Len(Returned(m)) = 0
               /\ OutWriters(CanonicalMIMEHeaderKey(m.HTTPHeader)) = {i}
               /\ config.OverwriteExisting \/ HeaderGet(call.w, m.HTTPHeader) = <<>>)
              => HeaderGet(call.out, m.HTTPHeader)
                    = CallTransform(m.Transform, m.DefaultValue)
\* the default "v0" of a rule that removes the prefix "v" is written as "0"
C28_Witness ==
    /\ Annotated /\ ~Skipped
    /\ Len(Mappings) = 1 /\ Inbound(Mappings[1])
    /\ Mappings[1].DefaultValue = Str_v0 /\ Mappings[1].Transform = RemovePrefix(Str_v)
    /\ Carried(Mappings[1]) = <<>>
    /\ call.out = (Mappings[1].GRPCMetadata :> << <<"0">> >>)


\* C29: when two or more Incoming or Bidirectional rules are declared for the
\* name asked for (the same name up to letter case when CaseSensitive=false,
\* the same spelling when true), HeaderMatcher returns the GRPCMetadata of the
\* last of them in declared order, with OverwriteExisting false as with true.
C29_MatcherLastRuleWins ==
    (call.op = "HeaderMatcher" /\ Cardinality(MatcherRules) >= 2) =>
        /\ call.exists
        /\ call.grpcKey = Mappings[Max(MatcherRules)].GRPCMetadata
\* two spellings of one name with different keys, first-writer-wins in force
C29_Witness ==
    /\ call.op = "HeaderMatcher" /\ call.key = Str_XUserId
    /\ ~config.CaseSensitive /\ ~config.OverwriteExisting
    /\ Len(Mappings) = 2 /\ MatcherRules = {1, 2}
    /\ Mappings[1].GRPCMetadata = Str_userid /\ Mappings[2].GRPCMetadata = Str_traceid
    /\ call.grpcKey = Str_traceid

====
